---------------------------- MODULE Spec2Model ----------------------------
(***************************************************************************)
(* Shandong mahjong: the rule engine (ShandongMahjong), the heuristic      *)
(* player (MahjongAI) and the round simulator (MahjongGameSimulator) of    *)
(* mahjong_game.py, as a state machine.                                    *)
(*                                                                         *)
(* A Card is a record [type, value]; a hand is a sequence of Cards (a      *)
(* Python list); a Counter is a function from the dense index 0..33 to a   *)
(* count.  The completion shapes are written "qidui" (seven pairs) and     *)
(* "pinghu" (four groups and one pair) for the source's strings.           *)
(***************************************************************************)
EXTENDS Integers, Sequences, FiniteSets, TLC

VARIABLES
    \* the engine, queried on its own
    include_honors,  \* game.include_honors
    q,               \* the last engine query: its name and its arguments
    r_hu,            \* what can_hu returned
    r_ting,          \* what get_ting_cards returned
    r_chi,           \* what can_chi returned
    r_val,           \* what any other query returned
    \* MahjongGameSimulator and its ShandongMahjong
    wall,            \* game.wall
    magic_card,      \* game.magic_card
    discarded,       \* game.discarded
    players,         \* simulator.players, each a MahjongAI
    current_player,  \* simulator.current_player
    winner,          \* simulator.winner
    win_type,        \* simulator.win_type
    pc,              \* where simulate_games / simulate_round stands
    turn,            \* the loop variable of simulate_round
    discard,         \* the local "discard" of simulate_round
    round_result,    \* what the last simulate_round returned
    games_done,      \* rounds completed by simulate_games
    results          \* the tallies of simulate_games

engine_vars == <<include_honors, q, r_hu, r_ting, r_chi, r_val>>

sim_vars == <<wall, magic_card, discarded, players, current_player, winner,
              win_type, pc, turn, discard, round_result, games_done, results>>

vars == <<engine_vars, sim_vars>>

(***************************************************************************)
(* Card model                                                              *)
(***************************************************************************)
WAN == 0
TONG == 1
TIAO == 2
FENG == 3
JIAN == 4

NumberTypes == {WAN, TONG, TIAO}

Card(card_type, value) == [type |-> card_type, value |-> value]

\* Python's None where a Card is expected
NoCard == [type |-> -1, value |-> 0]

to_index(c) ==
    IF c.type = WAN THEN c.value - 1
    ELSE IF c.type = TONG THEN 9 + c.value - 1
    ELSE IF c.type = TIAO THEN 18 + c.value - 1
    ELSE IF c.type = FENG THEN 27 + c.value - 1
    ELSE 31 + c.value - 1

from_index(index) ==
    IF index < 9 THEN Card(WAN, index + 1)
    ELSE IF index < 18 THEN Card(TONG, index - 9 + 1)
    ELSE IF index < 27 THEN Card(TIAO, index - 18 + 1)
    ELSE IF index < 31 THEN Card(FENG, index - 27 + 1)
    ELSE Card(JIAN, index - 31 + 1)

is_jiang_any_number(c) == c.type \in NumberTypes

is_jiang(c) == c.type \in NumberTypes /\ c.value \in {2, 5, 8}

tile_kind_count(honors) == IF honors THEN 34 ELSE 27

\* the dense indices a valid Card maps to
IndexRange == 0 .. 33

(***************************************************************************)
(* Counter(c.to_index() for c in hand)                                     *)
(***************************************************************************)
RECURSIVE Counter(_)
Counter(hand) ==
    IF hand = <<>> THEN [i \in IndexRange |-> 0]
    ELSE [Counter(Tail(hand)) EXCEPT ![to_index(Head(hand))] = @ + 1]

RECURSIVE SumUpTo(_, _)
SumUpTo(card_counts, n) ==
    IF n < 0 THEN 0 ELSE card_counts[n] + SumUpTo(card_counts, n - 1)

\* sum(card_counts.values())
SumValues(card_counts) == SumUpTo(card_counts, 33)

(***************************************************************************)
(* _check_qidui                                                            *)
(***************************************************************************)
RECURSIVE PairsUpTo(_, _)
PairsUpTo(card_counts, n) ==
    IF n < 0 THEN 0
    ELSE (IF card_counts[n] >= 2 THEN card_counts[n] \div 2 ELSE 0)
         + PairsUpTo(card_counts, n - 1)

check_qidui(card_counts, magic_count) ==
    LET pairs == PairsUpTo(card_counts, 33)
    IN  IF pairs >= 7 THEN TRUE
        ELSE magic_count >= 7 - pairs

(***************************************************************************)
(* _can_form_groups: the backtracking search.  The source mutates the      *)
(* Counter in place and undoes each branch; a branch's child call sees     *)
(* the counters and the budget computed below.                             *)
(***************************************************************************)
RECURSIVE FirstKindFrom(_, _, _)
FirstKindFrom(card_counts, tkc, i) ==
    IF i >= tkc THEN -1
    ELSE IF card_counts[i] > 0 THEN i
    ELSE FirstKindFrom(card_counts, tkc, i + 1)

\* the first i in range(tile_kind_count) with card_counts[i] > 0, or -1
FirstKind(card_counts, tkc) == FirstKindFrom(card_counts, tkc, 0)


\* total_have = sum(card_counts[idx] for idx, _ in needed)
RunTotalHave(card_counts, i) ==
    LET has(idx) == IF card_counts[idx] > 0 THEN card_counts[idx] ELSE 0
    IN  has(i) + has(i + 1) + has(i + 2)

\* card_counts[idx] -= 1 for one entry of "needed"
RunTake(card_counts, idx) ==
    IF card_counts[idx] > 0 THEN [card_counts EXCEPT ![idx] = @ - 1]
    ELSE card_counts

\* the counters after the run branch took one of each kind in "needed"
RunCounts(card_counts, i) ==
    RunTake(RunTake(RunTake(card_counts, i), i + 1), i + 2)

RECURSIVE can_form_groups(_, _, _, _)
can_form_groups(card_counts, magic_count, groups_needed, tkc) ==
    IF groups_needed = 0 THEN SumValues(card_counts) <= magic_count
    ELSE
      LET i == FirstKind(card_counts, tkc)
      IN  \/ /\ i # -1
             /\ \/ /\ card_counts[i] >= 3
                   /\ can_form_groups([card_counts EXCEPT ![i] = @ - 3],
                                      magic_count, groups_needed - 1, tkc)
                \/ /\ card_counts[i] + magic_count >= 3
                   /\ can_form_groups([card_counts EXCEPT ![i] = 0],
                                      magic_count - (3 - card_counts[i]),
                                      groups_needed - 1, tkc)
                \/ /\ i < 27
                   /\ i % 9 <= 6
                   /\ RunTotalHave(card_counts, i) + magic_count >= 3
                   /\ 3 - RunTotalHave(card_counts, i) <= magic_count
                   /\ can_form_groups(RunCounts(card_counts, i),
                                      magic_count - (3 - RunTotalHave(card_counts, i)),
                                      groups_needed - 1, tkc)
          \/ magic_count >= groups_needed * 3

(***************************************************************************)
(* _check_standard: the loop over jiang_index                              *)
(***************************************************************************)
\* the pair step for one jiang_index: whether a pair was taken, and the
\* counters and budget handed to the group search
TakeJiang(card_counts, magic_count, jiang_index) ==
    IF card_counts[jiang_index] >= 2
    THEN [ok |-> TRUE,
          counts |-> [card_counts EXCEPT ![jiang_index] = @ - 2],
          magic |-> magic_count]
    ELSE IF card_counts[jiang_index] = 1 /\ magic_count >= 1
    THEN [ok |-> TRUE,
          counts |-> [card_counts EXCEPT ![jiang_index] = @ - 1],
          magic |-> magic_count - 1]
    ELSE IF magic_count >= 2
    THEN [ok |-> TRUE, counts |-> card_counts, magic |-> magic_count - 2]
    ELSE [ok |-> FALSE, counts |-> card_counts, magic |-> magic_count]

\* one iteration of the loop: does jiang_index return True
JiangWorks(card_counts, magic_count, tkc, jiang_index) ==
    /\ is_jiang(from_index(jiang_index))
    /\ LET t == TakeJiang(card_counts, magic_count, jiang_index)
       IN  t.ok /\ can_form_groups(t.counts, t.magic, 4, tkc)

RECURSIVE check_standard_from(_, _, _, _)
check_standard_from(card_counts, magic_count, tkc, jiang_index) ==
    IF jiang_index >= tkc THEN [ok |-> FALSE, jiang |-> NoCard]
    ELSE IF JiangWorks(card_counts, magic_count, tkc, jiang_index)
    THEN [ok |-> TRUE, jiang |-> from_index(jiang_index)]
    ELSE check_standard_from(card_counts, magic_count, tkc, jiang_index + 1)

check_standard(card_counts, magic_count, tkc) ==
    check_standard_from(card_counts, magic_count, tkc, 0)

(***************************************************************************)
(* can_hu                                                                  *)
(***************************************************************************)
NotHu == [ok |-> FALSE, type |-> "none", jiang |-> NoCard]

can_hu_standard_first(hand, magic_count, honors) ==
    LET card_counts == Counter(hand)
        std == check_standard(card_counts, magic_count, tile_kind_count(honors))
    IN  IF std.ok THEN [ok |-> TRUE, type |-> "pinghu", jiang |-> std.jiang]
        ELSE IF check_qidui(card_counts, magic_count)
        THEN [ok |-> TRUE, type |-> "qidui", jiang |-> NoCard]
        ELSE NotHu

can_hu(hand, magic_count, honors) ==
    LET card_counts == Counter(hand)
    IN  IF check_qidui(card_counts, magic_count)
        THEN [ok |-> TRUE, type |-> "qidui", jiang |-> NoCard]
        ELSE LET std == check_standard(card_counts, magic_count,
                                       tile_kind_count(honors))
             IN  IF std.ok
                 THEN [ok |-> TRUE, type |-> "pinghu", jiang |-> std.jiang]
                 ELSE NotHu

(***************************************************************************)
(* get_ting_cards: the loop over range(tile_kind_count)                    *)
(***************************************************************************)
RECURSIVE ting_loop(_, _, _, _, _)
ting_loop(hand, magic_count, honors, i, ting_cards) ==
    IF i >= tile_kind_count(honors) THEN ting_cards
    ELSE LET test_card == from_index(i)
             test_hand == hand \o <<test_card>>
         IN  ting_loop(hand, magic_count, honors, i + 1,
                       IF can_hu(test_hand, magic_count, honors).ok
                       THEN ting_cards \cup {test_card} ELSE ting_cards)

get_ting_cards_27(hand, magic_count, honors) ==
    ting_loop(hand, magic_count, FALSE, 0, {})

get_ting_cards(hand, magic_count, honors) ==
    ting_loop(hand, magic_count, honors, 0, {})

(***************************************************************************)
(* can_chi                                                                 *)
(***************************************************************************)
InHand(hand, n) == \E k \in DOMAIN hand : hand[k] = n

\* the three shapes, in the order the source appends them
ChiLow(hand, card) ==
    LET needed == <<Card(card.type, card.value + 1), Card(card.type, card.value + 2)>>
    IN  IF card.value <= 7 /\ InHand(hand, needed[1]) /\ InHand(hand, needed[2])
        THEN << <<card>> \o needed >> ELSE <<>>

ChiMiddle(hand, card) ==
    LET needed == <<Card(card.type, card.value - 1), Card(card.type, card.value + 1)>>
    IN  IF 2 <= card.value /\ card.value <= 8
           /\ InHand(hand, needed[1]) /\ InHand(hand, needed[2])
        THEN << <<Card(card.type, card.value - 1), card,
                  Card(card.type, card.value + 1)>> >>
        ELSE <<>>

ChiHigh(hand, card) ==
    LET needed == <<Card(card.type, card.value - 2), Card(card.type, card.value - 1)>>
    IN  IF card.value >= 3 /\ InHand(hand, needed[1]) /\ InHand(hand, needed[2])
        THEN << needed \o <<card>> >> ELSE <<>>

can_chi_next_seat(hand, card, player_pos, discarder_pos) ==
    IF (discarder_pos - player_pos) % 4 # 1 THEN <<>>
    ELSE IF card.type \in {FENG, JIAN} THEN <<>>
    ELSE ChiLow(hand, card) \o ChiMiddle(hand, card) \o ChiHigh(hand, card)

can_chi_honors_too(hand, card, player_pos, discarder_pos) ==
    IF (discarder_pos - player_pos) % 4 # 3 THEN <<>>
    ELSE ChiLow(hand, card) \o ChiMiddle(hand, card) \o ChiHigh(hand, card)

can_chi(hand, card, player_pos, discarder_pos) ==
    IF (discarder_pos - player_pos) % 4 # 3 THEN <<>>
    ELSE IF card.type \in {FENG, JIAN} THEN <<>>
    ELSE ChiLow(hand, card) \o ChiMiddle(hand, card) \o ChiHigh(hand, card)

(***************************************************************************)
(* Engine queries.  A query is one call of a pure method of the engine on  *)
(* arguments drawn from bounded sets.                                      *)
(***************************************************************************)
\* hands are drawn from the first NumKinds kinds of KindOrder, at most
\* CopiesPerKind of each; a query passes at most MaxMagic as magic_count
NumKinds == 6
MaxMagic == 3
CopiesPerKind == 4
HandSize == 14

\* 8 wan, 9 wan, 1 tong, 2 tong, 3 tong, 4 tong, 5 tong, ...
KindOrder == [n \in 1 .. 20 |-> 6 + n]

HandKinds == {KindOrder[n] : n \in 1 .. NumKinds}

RECURSIVE HandFrom(_, _)
\* the hand holding cv[k] copies of every kind k >= i, in index order
HandFrom(cv, i) ==
    IF i > 33 THEN <<>>
    ELSE [n \in 1 .. (IF i \in DOMAIN cv THEN cv[i] ELSE 0) |-> from_index(i)]
         \o HandFrom(cv, i + 1)

RECURSIVE SumOver(_, _)
SumOver(cv, S) ==
    IF S = {} THEN 0
    ELSE LET k == CHOOSE x \in S : TRUE IN cv[k] + SumOver(cv, S \ {k})

\* hands of 14 tiles, or short of 14 by at most MaxMagic tiles
QueryHands ==
    {HandFrom(cv, 0) :
        cv \in {f \in [HandKinds -> 0 .. CopiesPerKind] :
                   SumOver(f, HandKinds) \in (HandSize - MaxMagic) .. HandSize}}

\* a query not yet made (returned = FALSE) or made (returned = TRUE)
Query(op, hand, magic_count, card, player_pos, discarder_pos) ==
    [op |-> op, hand |-> hand, magic_count |-> magic_count, card |-> card,
     player_pos |-> player_pos, discarder_pos |-> discarder_pos,
     returned |-> FALSE]

NumGames == 2

MaxTurns == 100

NoWinner == 0 - 1

\* the result dict of simulate_round; the source's strings are written
\* "hu" (a win), "huang" (a drawn round), "zimo" (self-draw) and "dianpao"
\* (a win on a discard)
NoResult == [result |-> "none", winner |-> NoWinner, win_type |-> "None",
             hu_info |-> NotHu, turns |-> 0]

\* simulate_round's return value when the wall or the turn budget runs out
Huang(turns) == [NoResult EXCEPT !.result = "huang", !.turns = turns]

\* simulate_round's return value on a win
Hu(w, how, hu_info, turns) ==
    [result |-> "hu", winner |-> w, win_type |-> how, hu_info |-> hu_info,
     turns |-> turns]

\* MahjongGameSimulator() constructed, the tallies of simulate_games zeroed
Constructed ==
    /\ wall = <<>>
    /\ magic_card = NoCard
    /\ discarded = <<>>
    /\ players = <<>>
    /\ current_player = 0
    /\ winner = NoWinner
    /\ win_type = "None"
    /\ pc = "next_game"
    /\ turn = 0
    /\ discard = NoCard
    /\ round_result = NoResult
    /\ games_done = 0
    /\ results = [total |-> NumGames, hu |-> 0, huang |-> 0,
                  wins |-> [i \in 0 .. 3 |-> 0],
                  win_types |-> [zimo |-> 0, dianpao |-> 0]]

NoQuery == [Query("none", <<>>, 0, NoCard, 0, 0) EXCEPT !.returned = TRUE]

\* r_val before a query returns
NoValue == [op |-> "none"]

NoReturn ==
    /\ r_hu = NotHu
    /\ r_ting = {}
    /\ r_chi = <<>>
    /\ r_val = NoValue

\* a can_hu query on any engine, hand and wildcard count of the bounds
InitHu ==
    /\ include_honors \in BOOLEAN
    /\ \E hand \in QueryHands, magic_count \in 0 .. MaxMagic :
          q = Query("can_hu", hand, magic_count, NoCard, 0, 0)
    /\ NoReturn
    /\ Constructed

CallCanHu ==
    /\ q.op = "can_hu"
    /\ ~q.returned
    /\ q' = [q EXCEPT !.returned = TRUE]
    /\ r_hu' = can_hu(q.hand, q.magic_count, include_honors)
    /\ UNCHANGED <<include_honors, r_ting, r_chi, r_val, sim_vars>>

SpecHu == InitHu /\ [][CallCanHu]_vars

\* get_ting_cards is queried on hands one tile short, drawn from the first
\* NumTingKinds kinds of KindOrder
NumTingKinds == 4

TingKinds == {KindOrder[n] : n \in 1 .. NumTingKinds}

TingHands ==
    {HandFrom(cv, 0) :
        cv \in {f \in [TingKinds -> 0 .. CopiesPerKind] :
                   SumOver(f, TingKinds) = HandSize - 1}}

InitTing ==
    /\ include_honors \in BOOLEAN
    /\ \E hand \in TingHands, magic_count \in 0 .. MaxMagic :
          q = Query("get_ting_cards", hand, magic_count, NoCard, 0, 0)
    /\ NoReturn
    /\ Constructed

CallGetTingCards ==
    /\ q.op = "get_ting_cards"
    /\ ~q.returned
    /\ q' = [q EXCEPT !.returned = TRUE]
    /\ r_ting' = get_ting_cards(q.hand, q.magic_count, include_honors)
    /\ UNCHANGED <<include_honors, r_hu, r_chi, r_val, sim_vars>>

SpecTing == InitTing /\ [][CallGetTingCards]_vars

\* can_chi is queried on hands holding at most one tile of each of the first
\* NumChiKinds kinds of ChiKindOrder, for every claimed kind and seat pair
NumChiKinds == 8
NumSeats == 4

\* east, south, west, then 5 wan .. 9 wan, 1 tong, 2 tong, ...
ChiKindOrder == [n \in 1 .. 20 |-> IF n <= 3 THEN 26 + n ELSE n]

ChiKinds == {ChiKindOrder[n] : n \in 1 .. NumChiKinds}

ChiHands == {HandFrom([k \in S |-> 1], 0) : S \in SUBSET ChiKinds}

Seats == 0 .. NumSeats - 1

InitChi ==
    /\ include_honors \in {FALSE}
    /\ \E hand \in ChiHands, i \in IndexRange, player_pos \in Seats,
          discarder_pos \in Seats :
          q = Query("can_chi", hand, 0, from_index(i), player_pos, discarder_pos)
    /\ NoReturn
    /\ Constructed

CallCanChi ==
    /\ q.op = "can_chi"
    /\ ~q.returned
    /\ q' = [q EXCEPT !.returned = TRUE]
    /\ r_chi' = can_chi(q.hand, q.card, q.player_pos, q.discarder_pos)
    /\ UNCHANGED <<include_honors, r_hu, r_ting, r_val, sim_vars>>

SpecChi == InitChi /\ [][CallCanChi]_vars

(***************************************************************************)
(* ShandongMahjong: the tile population, the deal and the draw.            *)
(***************************************************************************)
\* _init_cards: suit-major, rank-minor, four copies of each kind
init_cards(honors) ==
    [n \in 1 .. 4 * tile_kind_count(honors) |-> from_index((n - 1) \div 4)]

\* random.shuffle is drawn from a family of permutations of the population:
\* wall[i] = cards[(ShuffleMul * i + ShuffleAdd) mod n], positions from 0
NumShuffles == 2

ShuffleMul == <<11, 31, 35, 73, 7, 19>>

ShuffleAdd == <<50, 2, 1, 92, 0, 5>>

shuffle(cards, s) ==
    [n \in 1 .. Len(cards) |->
        cards[((ShuffleMul[s] * (n - 1) + ShuffleAdd[s]) % Len(cards)) + 1]]

\* [w.pop() for _ in range(count)]: the last count tiles of w, last first
PopMany(w, count) == [n \in 1 .. count |-> w[Len(w) - n + 1]]

DropMany(w, count) == SubSeq(w, 1, Len(w) - count)

\* tiles dealt before seat i is served
DealtBefore(i) == IF i = 0 THEN 0 ELSE 14 + 13 * (i - 1)

shuffle_and_deal_keep_magic(cards, s) ==
    LET w == shuffle(cards, s)
        rest == DropMany(w, DealtBefore(4))
    IN  [hands |-> [i \in 0 .. 3 |->
                      PopMany(DropMany(w, DealtBefore(i)),
                              IF i = 0 THEN 14 ELSE 13)],
         magic_card |-> rest[Len(rest)],
         wall |-> rest]

\* shuffle_and_deal: the four hands, the wildcard and the wall left
shuffle_and_deal(cards, s) ==
    LET w == shuffle(cards, s)
        hands == [i \in 0 .. 3 |->
                    PopMany(DropMany(w, DealtBefore(i)),
                            IF i = 0 THEN 14 ELSE 13)]
        rest == DropMany(w, DealtBefore(4))
    IN  [hands |-> hands,
         magic_card |-> rest[Len(rest)],
         wall |-> DropMany(rest, 1)]

is_magic(magic, card) == magic # NoCard /\ card = magic

(***************************************************************************)
(* MahjongAI: one seat's hand, its logs and its discard decision.          *)
(***************************************************************************)
RECURSIVE CountIn(_, _)
\* sum(1 for c in cards if c == card)
CountIn(cards, card) ==
    IF cards = <<>> THEN 0
    ELSE (IF Head(cards) = card THEN 1 ELSE 0) + CountIn(Tail(cards), card)

RECURSIVE RemoveFirst(_, _)
\* list.remove: drops the first occurrence
RemoveFirst(cards, card) ==
    IF cards = <<>> THEN <<>>
    ELSE IF Head(cards) = card THEN Tail(cards)
    ELSE <<Head(cards)>> \o RemoveFirst(Tail(cards), card)

Others(player_id) == (0 .. 3) \ {player_id}

RECURSIVE take_from_wall(_, _)
\* for card in cards: estimated_wall[card.to_index()] -= 1; the loop stops
\* at the first card whose index is no key of the dict (KeyError), with the
\* earlier cards already taken off
take_from_wall(est, cards) ==
    IF est.raised \/ cards = <<>> THEN est
    ELSE LET idx == to_index(Head(cards))
         IN  IF idx \notin DOMAIN est.wall
             THEN [est EXCEPT !.raised = TRUE]
             ELSE take_from_wall([est EXCEPT !.wall[idx] = @ - 1],
                                 Tail(cards))

\* _update_estimated_wall: four of each kind of the game's alphabet, less the
\* hand, then less the own discards; raised is the KeyError of a tile outside
\* the alphabet, and wall is the dict as the call leaves it
update_estimated_wall(hand, own_discarded, tkc) ==
    take_from_wall(
        take_from_wall([raised |-> FALSE, wall |-> [i \in 0 .. tkc - 1 |-> 4]],
                       hand),
        own_discarded)

\* MahjongAI(player_id) followed by init_hand(hand, game); raised records
\* that the last call on the seat ended in an exception, the other fields are
\* the object as that call left it
init_hand(player_id, hand, magic, tkc) ==
    LET est == update_estimated_wall(hand, <<>>, tkc)
    IN  [player_id |-> player_id,
         hand |-> hand,
         magic_count |-> CountIn(hand, magic),
         peng_cards |-> <<>>,
         gang_cards |-> <<>>,
         discarded |-> <<>>,
         other_players_discard |-> [i \in Others(player_id) |-> <<>>],
         other_players_peng |-> [i \in Others(player_id) |-> <<>>],
         other_players_gang |-> [i \in Others(player_id) |-> <<>>],
         estimated_wall |-> est.wall,
         raised |-> est.raised]

\* the opponents' discard logs, in seat order, then the seat's own
all_discards(p) ==
    LET RECURSIVE Ext(_)
        Ext(i) == IF i > 3 THEN <<>>
                  ELSE (IF i = p.player_id THEN <<>>
                        ELSE p.other_players_discard[i]) \o Ext(i + 1)
    IN  Ext(0) \o p.discarded

\* opponents that discarded more than three tiles of the card's suit
SameTypeDiscarders(p, card) ==
    {i \in Others(p.player_id) :
        Len(SelectSeq(p.other_players_discard[i],
                      LAMBDA c : c.type = card.type)) > 3}

assess_danger(p, card) ==
    LET seen == all_discards(p)
    IN  0 - Cardinality(SameTypeDiscarders(p, card))
        + (IF CountIn(seen, card) = 0 THEN 3 ELSE 0)
        + (IF card.type \in NumberTypes /\ card.value >= 3 /\ card.value <= 7
           THEN 2 ELSE 0)
        + (IF card.type \in {FENG, JIAN}
           THEN (IF CountIn(seen, card) >= 2 THEN -2 ELSE 1)
           ELSE 0)

\* the ranks within two of the card's rank, the card's own rank included
Nearby(card) == {v \in card.value - 2 .. card.value + 2 : 1 <= v /\ v <= 9}

RECURSIVE NearbyBonus(_, _, _)
NearbyBonus(hand, card, V) ==
    IF V = {} THEN 0
    ELSE LET v == CHOOSE x \in V : TRUE
         IN  5 * CountIn(hand, Card(card.type, v))
             + NearbyBonus(hand, card, V \ {v})

evaluate_card_value(p, card) ==
    LET is_isolated ==
            ~ /\ card.type \in NumberTypes
              /\ \E v \in Nearby(card) \ {card.value} :
                    InHand(p.hand, Card(card.type, v))
        count == CountIn(p.hand, card)
    IN  (IF is_isolated THEN -10 ELSE 0)
        + (IF card.type \in NumberTypes
           THEN NearbyBonus(p.hand, card, Nearby(card)) ELSE 0)
        + (IF count >= 2 THEN 15 * count ELSE 0)
        + (IF is_jiang(card) THEN 8 ELSE 0)
        - assess_danger(p, card) * 5

RECURSIVE safest_loop(_, _, _, _, _, _, _)
\* the loop of _select_safest_card; has_min is FALSE while min_danger is inf
safest_loop(p, magic, candidates, n, safest, has_min, min_danger) ==
    IF n > Len(candidates) THEN safest
    ELSE IF is_magic(magic, candidates[n])
         THEN safest_loop(p, magic, candidates, n + 1, safest, has_min,
                          min_danger)
    ELSE LET danger == assess_danger(p, candidates[n])
         IN  IF ~has_min \/ danger < min_danger
             THEN safest_loop(p, magic, candidates, n + 1, candidates[n],
                              TRUE, danger)
             ELSE safest_loop(p, magic, candidates, n + 1, safest, has_min,
                              min_danger)

select_safest_card(p, magic, candidates) ==
    IF candidates = <<>> THEN NoCard
    ELSE safest_loop(p, magic, candidates, 1, candidates[1], FALSE, 0)

select_safe_card(p, magic) ==
    LET seen == all_discards(p)
        known == SelectSeq(p.hand,
                    LAMBDA c : ~is_magic(magic, c) /\ CountIn(seen, c) > 0)
        edge == SelectSeq(p.hand,
                    LAMBDA c : /\ ~is_magic(magic, c)
                               /\ c.type \in NumberTypes
                               /\ c.value \in {1, 9})
    IN  IF known # <<>> THEN known[1]
        ELSE IF edge # <<>> THEN edge[1]
        ELSE select_safest_card(p, magic, p.hand)

RECURSIVE Keys(_)
\* the keys of a dict filled while iterating cards: first occurrences, in order
Keys(cards) ==
    IF cards = <<>> THEN <<>>
    ELSE LET init == Keys(SubSeq(cards, 1, Len(cards) - 1))
             last == cards[Len(cards)]
         IN  IF InHand(init, last) THEN init ELSE Append(init, last)

decide_discard_plays_wildcard(p, magic, honors) ==
    IF p.hand = <<>> THEN NoCard
    ELSE IF get_ting_cards(p.hand, p.magic_count, honors) # {}
         THEN select_safe_card(p, magic)
    ELSE LET keys == Keys(p.hand)
             card_values == [n \in 1 .. Len(keys) |->
                                IF is_magic(magic, keys[n]) THEN -1000
                                ELSE evaluate_card_value(p, keys[n])]
             min_value == CHOOSE v \in {card_values[n] : n \in 1 .. Len(keys)} :
                             \A n \in 1 .. Len(keys) : v <= card_values[n]
             candidates ==
                 LET RECURSIVE Pick(_)
                     Pick(n) == IF n > Len(keys) THEN <<>>
                                ELSE (IF card_values[n] = min_value
                                      THEN <<keys[n]>> ELSE <<>>) \o Pick(n + 1)
                 IN  Pick(1)
         IN  select_safest_card(p, magic, candidates)

decide_discard(p, magic, honors) ==
    IF p.hand = <<>> THEN NoCard
    ELSE IF get_ting_cards(p.hand, p.magic_count, honors) # {}
         THEN select_safe_card(p, magic)
    ELSE LET keys == Keys(p.hand)
             card_values == [n \in 1 .. Len(keys) |->
                                IF is_magic(magic, keys[n]) THEN 1000
                                ELSE evaluate_card_value(p, keys[n])]
             min_value == CHOOSE v \in {card_values[n] : n \in 1 .. Len(keys)} :
                             \A n \in 1 .. Len(keys) : v <= card_values[n]
             candidates ==
                 LET RECURSIVE Pick(_)
                     Pick(n) == IF n > Len(keys) THEN <<>>
                                ELSE (IF card_values[n] = min_value
                                      THEN <<keys[n]>> ELSE <<>>) \o Pick(n + 1)
                 IN  Pick(1)
         IN  select_safest_card(p, magic, candidates)

\* update_after_discard: the own log, the hand, then the wall estimate
update_after_discard(p, card, tkc) ==
    LET hand == IF InHand(p.hand, card) THEN RemoveFirst(p.hand, card)
                ELSE p.hand
        own == Append(p.discarded, card)
        est == update_estimated_wall(hand, own, tkc)
    IN  [p EXCEPT !.discarded = own,
                  !.hand = hand,
                  !.estimated_wall = est.wall,
                  !.raised = est.raised]

\* update_opponent_discard: a seat without a log, or a tile without a key in
\* the estimate, is a KeyError; the log is appended before the estimate is read
update_opponent_discard(p, player_id, card) ==
    IF player_id \notin DOMAIN p.other_players_discard
    THEN [p EXCEPT !.raised = TRUE]
    ELSE IF to_index(card) \notin DOMAIN p.estimated_wall
    THEN [p EXCEPT !.other_players_discard[player_id] = Append(@, card),
                   !.raised = TRUE]
    ELSE [p EXCEPT !.other_players_discard[player_id] = Append(@, card),
                   !.estimated_wall[to_index(card)] = @ - 1,
                   !.raised = FALSE]

(***************************************************************************)
(* MahjongAI.decide_peng: whether the seat takes a triplet claim.          *)
(***************************************************************************)
RECURSIVE HalfGroups(_, _)
\* twice the "groups" of _hand_quality, summed over the kinds from i up
HalfGroups(card_counts, i) ==
    IF i > 33 THEN 0
    ELSE (IF card_counts[i] >= 3 THEN 2
          ELSE IF card_counts[i] = 2 THEN 1 ELSE 0)
         + (IF i < 27 /\ i % 9 <= 6
            THEN LET has1 == card_counts[i] > 0
                     has2 == card_counts[i + 1] > 0
                     has3 == card_counts[i + 2] > 0
                 IN  IF has1 /\ has2 /\ has3 THEN 2
                     ELSE IF (has1 /\ has2) \/ (has2 /\ has3) \/ (has1 /\ has3)
                     THEN 1 ELSE 0
            ELSE 0)
         + HalfGroups(card_counts, i + 1)

\* _hand_quality in eighths: min(groups / 4, 1.0) * 8
hand_quality_eighths(p) ==
    LET halves == HalfGroups(Counter(p.hand), 0)
    IN  IF halves < 8 THEN halves ELSE 8

opponent_making_big_hand(p) ==
    \/ \E i \in Others(p.player_id) : Len(p.other_players_peng[i]) >= 2
    \/ \E i \in Others(p.player_id) : Len(p.other_players_gang[i]) > 0

\* decide_peng: temp_hand.remove(card) twice is a ValueError on a hand with
\* fewer than two copies of the card; the seat itself is left as it was
decide_peng(p, card, honors) ==
    IF CountIn(p.hand, card) < 2 THEN [raised |-> TRUE, value |-> FALSE]
    ELSE LET current_ting == get_ting_cards(p.hand, p.magic_count, honors)
             temp_hand == RemoveFirst(RemoveFirst(p.hand, card), card)
             future_ting == get_ting_cards(temp_hand, p.magic_count, honors)
         IN  [raised |-> FALSE,
              value |->
                 IF Cardinality(future_ting) >= Cardinality(current_ting)
                 THEN TRUE
                 ELSE IF 10 * hand_quality_eighths(p) > 56 THEN FALSE
                 ELSE opponent_making_big_hand(p)]

\* update_after_peng: the meld is logged first, then two copies leave the
\* hand (ValueError when a copy is missing), then the wall estimate
update_after_peng(p, card, tkc) ==
    LET melded == [p EXCEPT !.peng_cards = Append(@, <<card, card, card>>)]
        held == CountIn(p.hand, card)
    IN  IF held = 0 THEN [melded EXCEPT !.raised = TRUE]
        ELSE IF held = 1
        THEN [melded EXCEPT !.hand = RemoveFirst(@, card), !.raised = TRUE]
        ELSE LET hand == RemoveFirst(RemoveFirst(p.hand, card), card)
                 est == update_estimated_wall(hand, p.discarded, tkc)
             IN  [melded EXCEPT !.hand = hand,
                                !.estimated_wall = est.wall,
                                !.raised = est.raised]

RECURSIVE RemoveUpTo(_, _, _)
\* for _ in range(n): if card in hand: hand.remove(card)
RemoveUpTo(hand, card, n) ==
    IF n = 0 \/ ~InHand(hand, card) THEN hand
    ELSE RemoveUpTo(RemoveFirst(hand, card), card, n - 1)

\* update_after_gang: the meld is logged, up to four (concealed) or three
\* copies leave the hand, then the wall estimate
update_after_gang(p, card, is_an_gang, tkc) ==
    LET hand == RemoveUpTo(p.hand, card, IF is_an_gang THEN 4 ELSE 3)
        est == update_estimated_wall(hand, p.discarded, tkc)
    IN  [p EXCEPT !.gang_cards = Append(@, <<card, card, card, card>>),
                  !.hand = hand,
                  !.estimated_wall = est.wall,
                  !.raised = est.raised]

(***************************************************************************)
(* One MahjongAI seat driven through its public methods: init_hand, then   *)
(* up to MaxSeatCalls of decide_peng, update_after_peng, update_after_gang,*)
(* update_after_discard and update_opponent_discard.  A call that raised   *)
(* ends the run of the seat.                                               *)
(***************************************************************************)
MaxSeatCalls == 2

\* 1 wan, 2 wan and the east wind, which the 27-kind game lacks
SeatKindOrder == <<0, 1, 27>>

SeatCards == {from_index(SeatKindOrder[n]) : n \in 1 .. Len(SeatKindOrder)}

\* up to three copies of 1 wan, two of 2 wan, one east wind
SeatHands ==
    {HandFrom(cv, 0) :
        cv \in {f \in [{SeatKindOrder[n] : n \in 1 .. Len(SeatKindOrder)}
                         -> 0 .. 3] :
                   f[SeatKindOrder[2]] <= 2 /\ f[SeatKindOrder[3]] <= 1}}

InitSeat ==
    /\ include_honors \in BOOLEAN
    /\ \E hand \in SeatHands, magic \in {NoCard, from_index(SeatKindOrder[1])} :
          q = [op |-> "seat", calls |-> 0,
               player |-> init_hand(0, hand, magic,
                                    tile_kind_count(include_honors))]
    /\ NoReturn
    /\ Constructed

\* the seat can take another call
SeatReady ==
    /\ q.op = "seat"
    /\ q.calls < MaxSeatCalls
    /\ ~q.player.raised

CallDecidePeng ==
    /\ SeatReady
    /\ \E card \in SeatCards :
          LET d == decide_peng(q.player, card, include_honors)
          IN  /\ q' = [q EXCEPT !.calls = @ + 1, !.player.raised = d.raised]
              /\ r_val' = [op |-> "decide_peng", card |-> card,
                           raised |-> d.raised, value |-> d.value]
    /\ UNCHANGED <<include_honors, r_hu, r_ting, r_chi, sim_vars>>

CallUpdateAfterPeng ==
    /\ SeatReady
    /\ \E card \in SeatCards :
          /\ q' = [q EXCEPT !.calls = @ + 1,
                            !.player = update_after_peng(
                                           @, card,
                                           tile_kind_count(include_honors))]
          /\ r_val' = [op |-> "update_after_peng", card |-> card]
    /\ UNCHANGED <<include_honors, r_hu, r_ting, r_chi, sim_vars>>

CallUpdateAfterGang ==
    /\ SeatReady
    /\ \E card \in SeatCards, is_an_gang \in BOOLEAN :
          /\ q' = [q EXCEPT !.calls = @ + 1,
                            !.player = update_after_gang(
                                           @, card, is_an_gang,
                                           tile_kind_count(include_honors))]
          /\ r_val' = [op |-> "update_after_gang", card |-> card,
                       is_an_gang |-> is_an_gang]
    /\ UNCHANGED <<include_honors, r_hu, r_ting, r_chi, sim_vars>>

CallUpdateAfterDiscard ==
    /\ SeatReady
    /\ \E card \in SeatCards :
          /\ q' = [q EXCEPT !.calls = @ + 1,
                            !.player = update_after_discard(
                                           @, card,
                                           tile_kind_count(include_honors))]
          /\ r_val' = [op |-> "update_after_discard", card |-> card]
    /\ UNCHANGED <<include_honors, r_hu, r_ting, r_chi, sim_vars>>

CallUpdateOpponentDiscard ==
    /\ SeatReady
    /\ \E player_id \in 0 .. 3, card \in SeatCards :
          /\ q' = [q EXCEPT !.calls = @ + 1,
                            !.player = update_opponent_discard(@, player_id,
                                                               card)]
          /\ r_val' = [op |-> "update_opponent_discard",
                       player_id |-> player_id, card |-> card]
    /\ UNCHANGED <<include_honors, r_hu, r_ting, r_chi, sim_vars>>

NextSeat ==
    \/ CallDecidePeng
    \/ CallUpdateAfterPeng
    \/ CallUpdateAfterGang
    \/ CallUpdateAfterDiscard
    \/ CallUpdateOpponentDiscard

SpecSeat == InitSeat /\ [][NextSeat]_vars

(***************************************************************************)
(* MahjongGameSimulator: simulate_games runs simulate_round num_games      *)
(* times on one simulator.                                                 *)
(***************************************************************************)
\* simulate_games(NumGames) entered on a simulator just constructed
Init ==
    /\ include_honors = FALSE
    /\ q = NoQuery
    /\ NoReturn
    /\ Constructed

\* players is 1-indexed here: seat i is players[i + 1]
Seat(i) == players[i + 1]

\* simulate_round entered: init_game deals a fresh wall to four fresh players
InitGameWith(S) ==
    /\ pc = "next_game"
    /\ games_done < NumGames
    /\ \E s \in S :
          LET deal == shuffle_and_deal(init_cards(include_honors), s)
          IN  /\ wall' = deal.wall
              /\ magic_card' = deal.magic_card
              /\ players' = [n \in 1 .. 4 |->
                               init_hand(n - 1, deal.hands[n - 1],
                                         deal.magic_card,
                                         tile_kind_count(include_honors))]
    /\ turn' = 0
    /\ pc' = "draw"
    /\ UNCHANGED <<engine_vars, discarded, current_player, winner, win_type,
                   discard, round_result, games_done, results>>

InitGame == InitGameWith(1 .. NumShuffles)

DrawCard_capped_early ==
    /\ pc = "draw"
    /\ IF turn >= MaxTurns \div 4 \/ wall = <<>>
       THEN /\ round_result' = Huang(turn)
            /\ pc' = "return"
            /\ UNCHANGED <<wall, players>>
       ELSE LET new_card == wall[Len(wall)]
            IN  /\ wall' = DropMany(wall, 1)
                /\ players' =
                     [players EXCEPT ![current_player + 1] =
                        [@ EXCEPT !.hand = Append(@, new_card),
                                  !.magic_count =
                                      IF is_magic(magic_card, new_card)
                                      THEN @ + 1 ELSE @]]
                /\ pc' = "check_zimo"
                /\ UNCHANGED round_result
    /\ UNCHANGED <<engine_vars, magic_card, discarded, current_player, winner,
                   win_type, turn, discard, games_done, results>>

\* the head of the turn loop: the seat to act draws
DrawCard ==
    /\ pc = "draw"
    /\ IF turn >= MaxTurns \/ wall = <<>>
       THEN /\ round_result' = Huang(turn)
            /\ pc' = "return"
            /\ UNCHANGED <<wall, players>>
       ELSE LET new_card == wall[Len(wall)]
            IN  /\ wall' = DropMany(wall, 1)
                /\ players' =
                     [players EXCEPT ![current_player + 1] =
                        [@ EXCEPT !.hand = Append(@, new_card),
                                  !.magic_count =
                                      IF is_magic(magic_card, new_card)
                                      THEN @ + 1 ELSE @]]
                /\ pc' = "check_zimo"
                /\ UNCHANGED round_result
    /\ UNCHANGED <<engine_vars, magic_card, discarded, current_player, winner,
                   win_type, turn, discard, games_done, results>>

CheckZimo_never_wins ==
    /\ pc = "check_zimo"
    /\ pc' = "discard"
    /\ UNCHANGED <<engine_vars, wall, magic_card, discarded, players,
                   current_player, winner, win_type, turn, discard,
                   round_result, games_done, results>>

\* the self-draw check on the hand just drawn into
CheckZimo ==
    /\ pc = "check_zimo"
    /\ LET player == Seat(current_player)
           hu == can_hu(player.hand, player.magic_count, include_honors)
       IN  IF hu.ok
           THEN /\ winner' = current_player
                /\ win_type' = "zimo"
                /\ round_result' = Hu(current_player, "zimo", hu, turn)
                /\ pc' = "return"
           ELSE /\ pc' = "discard"
                /\ UNCHANGED <<winner, win_type, round_result>>
    /\ UNCHANGED <<engine_vars, wall, magic_card, discarded, players,
                   current_player, turn, discard, games_done, results>>

\* decide_discard, update_after_discard, the pile, and the opponents' logs
Discard ==
    /\ pc = "discard"
    /\ LET player == Seat(current_player)
           card == decide_discard(player, magic_card, include_honors)
       IN  /\ discard' = card
           /\ discarded' = Append(discarded, card)
           /\ players' =
                [n \in 1 .. 4 |->
                    IF n - 1 = current_player
                    THEN update_after_discard(player, card,
                                              tile_kind_count(include_honors))
                    ELSE update_opponent_discard(players[n], current_player,
                                                 card)]
    /\ pc' = "check_dianpao"
    /\ UNCHANGED <<engine_vars, wall, magic_card, current_player, winner,
                   win_type, turn, round_result, games_done, results>>

\* the seats, other than the discarder, whose hand plus the discard is a win
Claimants ==
    {i \in Others(current_player) :
        can_hu(Append(Seat(i).hand, discard), Seat(i).magic_count,
               include_honors).ok}

\* the other seats are asked in index order; without a claim the turn passes
CheckDianpao ==
    /\ pc = "check_dianpao"
    /\ IF Claimants # {}
       THEN LET i == CHOOSE c \in Claimants : \A d \in Claimants : c <= d
                hu == can_hu(Append(Seat(i).hand, discard),
                             Seat(i).magic_count, include_honors)
            IN  /\ winner' = i
                /\ win_type' = "dianpao"
                /\ round_result' = Hu(i, "dianpao", hu, turn)
                /\ pc' = "return"
                /\ UNCHANGED <<current_player, turn>>
       ELSE /\ current_player' = (current_player + 1) % 4
            /\ turn' = turn + 1
            /\ pc' = "draw"
            /\ UNCHANGED <<winner, win_type, round_result>>
    /\ UNCHANGED <<engine_vars, wall, magic_card, discarded, players, discard,
                   games_done, results>>

\* simulate_round returned: simulate_games tallies the result
Tally ==
    /\ pc = "return"
    /\ results' =
         IF round_result.result = "hu"
         THEN [results EXCEPT !.hu = @ + 1,
                              !.wins[round_result.winner] = @ + 1,
                              !.win_types[round_result.win_type] = @ + 1]
         ELSE [results EXCEPT !.huang = @ + 1]
    /\ games_done' = games_done + 1
    /\ pc' = "next_game"
    /\ UNCHANGED <<engine_vars, wall, magic_card, discarded, players,
                   current_player, winner, win_type, turn, discard,
                   round_result>>

Next ==
    \/ InitGame
    \/ DrawCard
    \/ CheckZimo
    \/ Discard
    \/ CheckDianpao
    \/ Tally

Spec == Init /\ [][Next]_vars

\* the rounds dealt from the shuffle in which a discard completes the hands
\* of two seats at once
TieShuffle == 4

InitGameTie == InitGameWith({TieShuffle})

NextTie ==
    \/ InitGameTie
    \/ DrawCard
    \/ CheckZimo
    \/ Discard
    \/ CheckDianpao
    \/ Tally

SpecTie == Init /\ [][NextTie]_vars

(***************************************************************************)
(* mahjong_complete.py: the quad checks of the complete engine.  A meld    *)
(* list is a sequence of sequences of Cards.                               *)
(***************************************************************************)
AN_GANG == 0
MING_GANG == 1
JIA_GANG == 2

NoGangType == 0 - 1

\* some peng in peng_cards has len(peng) >= 3 and peng[0] == card
HasPeng(peng_cards, card) ==
    \E n \in DOMAIN peng_cards :
        Len(peng_cards[n]) >= 3 /\ peng_cards[n][1] = card

\* ShandongMahjong.can_gang of mahjong_complete.py
complete_can_gang(hand, card, peng_cards) ==
    LET count == CountIn(hand, card)
    IN  IF count >= 4 THEN [ok |-> TRUE, gang_type |-> AN_GANG]
        ELSE IF HasPeng(peng_cards, card)
        THEN [ok |-> TRUE, gang_type |-> MING_GANG]
        ELSE IF count >= 3 THEN [ok |-> TRUE, gang_type |-> JIA_GANG]
        ELSE [ok |-> FALSE, gang_type |-> NoGangType]

can_ming_gang(hand, card, peng_cards) == HasPeng(peng_cards, card)

\* the quad checks are queried on hands over the first NumGangKinds kinds and
\* on at most MaxPeng exposed triplets of those kinds
NumGangKinds == 2
MaxPeng == 2

GangKinds == 0 .. NumGangKinds - 1

GangHands == {HandFrom(cv, 0) : cv \in [GangKinds -> 0 .. CopiesPerKind]}

Triplet(card) == <<card, card, card>>

RECURSIVE PengLists(_)
\* the lists of n exposed triplets
PengLists(n) ==
    IF n = 0 THEN {<<>>}
    ELSE {Append(l, Triplet(from_index(k))) : l \in PengLists(n - 1), k \in GangKinds}

InitGang ==
    /\ include_honors \in BOOLEAN
    /\ \E hand \in GangHands, k \in GangKinds, n \in 0 .. MaxPeng :
          \E peng_cards \in PengLists(n) :
             q = [op |-> "can_gang", hand |-> hand, card |-> from_index(k),
                  peng_cards |-> peng_cards, returned |-> FALSE]
    /\ NoReturn
    /\ Constructed

\* can_gang and can_ming_gang called on the same arguments
CallCanGang ==
    /\ q.op = "can_gang"
    /\ ~q.returned
    /\ q' = [q EXCEPT !.returned = TRUE]
    /\ r_val' = [op |-> "can_gang",
                 can_gang |-> complete_can_gang(q.hand, q.card, q.peng_cards),
                 can_ming_gang |-> can_ming_gang(q.hand, q.card, q.peng_cards)]
    /\ UNCHANGED <<include_honors, r_hu, r_ting, r_chi, sim_vars>>

SpecGang == InitGang /\ [][CallCanGang]_vars

(***************************************************************************)
(* The claim queries of mahjong_game.py that only count the copies held.   *)
(***************************************************************************)
can_peng(hand, card) == CountIn(hand, card) >= 2

can_gang(hand, card) == CountIn(hand, card) >= 3

(***************************************************************************)
(* mahjong_complete.py: calculate_fan                                      *)
(***************************************************************************)
calculate_fan_one_per_gang(hu_type, peng_cards, gang_cards, is_zimo, is_zhuang, magic_count) ==
    (IF hu_type = "qidui" THEN 4 ELSE IF hu_type = "pinghu" THEN 1 ELSE 0)
    + Len(gang_cards)
    + (IF is_zimo THEN 1 ELSE 0)
    + (IF is_zhuang THEN 1 ELSE 0)
    + magic_count

calculate_fan(hu_type, peng_cards, gang_cards, is_zimo, is_zhuang, magic_count) ==
    (IF hu_type = "qidui" THEN 4 ELSE IF hu_type = "pinghu" THEN 1 ELSE 0)
    + Len(gang_cards) * 2
    + (IF is_zimo THEN 1 ELSE 0)
    + (IF is_zhuang THEN 1 ELSE 0)
    + magic_count

\* calculate_fan is queried with at most MaxGang declared quads
MaxGang == 2

Quad(card) == <<card, card, card, card>>

RECURSIVE GangLists(_)
\* the lists of n declared quads
GangLists(n) ==
    IF n = 0 THEN {<<>>}
    ELSE {Append(l, Quad(from_index(k))) : l \in GangLists(n - 1), k \in GangKinds}

InitFan ==
    /\ include_honors = FALSE
    /\ \E hu_type \in {"qidui", "pinghu", "none"}, np \in 0 .. MaxPeng,
          ng \in 0 .. MaxGang, is_zimo \in BOOLEAN, is_zhuang \in BOOLEAN,
          magic_count \in 0 .. MaxMagic :
          \E peng_cards \in PengLists(np), gang_cards \in GangLists(ng) :
             q = [op |-> "calculate_fan", hu_type |-> hu_type,
                  peng_cards |-> peng_cards, gang_cards |-> gang_cards,
                  is_zimo |-> is_zimo, is_zhuang |-> is_zhuang,
                  magic_count |-> magic_count, returned |-> FALSE]
    /\ NoReturn
    /\ Constructed

CallCalculateFan ==
    /\ q.op = "calculate_fan"
    /\ ~q.returned
    /\ q' = [q EXCEPT !.returned = TRUE]
    /\ r_val' = [op |-> "calculate_fan",
                 value |-> calculate_fan(q.hu_type, q.peng_cards, q.gang_cards,
                                         q.is_zimo, q.is_zhuang, q.magic_count)]
    /\ UNCHANGED <<include_honors, r_hu, r_ting, r_chi, sim_vars>>

SpecFan == InitFan /\ [][CallCalculateFan]_vars

(***************************************************************************)
(* The engine of mahjong_game.py on its own: one deal, then draws.         *)
(***************************************************************************)
draw_card_from_front(w) ==
    IF w # <<>> THEN [card |-> Head(w), wall |-> Tail(w)]
    ELSE [card |-> NoCard, wall |-> w]

\* draw_card: the tile returned (NoCard for None) and the wall left
draw_card(w) ==
    IF w # <<>> THEN [card |-> w[Len(w)], wall |-> DropMany(w, 1)]
    ELSE [card |-> NoCard, wall |-> w]

\* draw_card is called up to ExtraDraws times more than the wall holds tiles
ExtraDraws == 2

\* the tiles a deal takes from the wall: four hands and the wildcard tile
DealtTiles == DealtBefore(4) + 1

InitDeal ==
    /\ include_honors \in BOOLEAN
    /\ q = [op |-> "engine", dealt |-> FALSE, hands |-> <<>>, calls |-> 0,
            tiles |-> 0]
    /\ NoReturn
    /\ Constructed

CallShuffleAndDeal ==
    /\ q.op = "engine"
    /\ ~q.dealt
    /\ \E s \in 1 .. NumShuffles :
          LET deal == shuffle_and_deal(init_cards(include_honors), s)
          IN  /\ wall' = deal.wall
              /\ magic_card' = deal.magic_card
              /\ q' = [q EXCEPT !.dealt = TRUE, !.hands = deal.hands]
              /\ r_val' = [op |-> "shuffle_and_deal", value |-> deal.magic_card]
    /\ UNCHANGED <<include_honors, r_hu, r_ting, r_chi, discarded, players,
                   current_player, winner, win_type, pc, turn, discard,
                   round_result, games_done, results>>

CallDrawCard ==
    /\ q.op = "engine"
    /\ q.dealt
    /\ q.calls < Len(init_cards(include_honors)) - DealtTiles + ExtraDraws
    /\ LET drawn == draw_card(wall)
       IN  /\ wall' = drawn.wall
           /\ r_val' = [op |-> "draw_card", value |-> drawn.card]
           /\ q' = [q EXCEPT !.calls = @ + 1,
                             !.tiles = IF drawn.card # NoCard THEN @ + 1 ELSE @]
    /\ UNCHANGED <<include_honors, r_hu, r_ting, r_chi, magic_card, discarded,
                   players, current_player, winner, win_type, pc, turn,
                   discard, round_result, games_done, results>>

SpecDeal == InitDeal /\ [][CallShuffleAndDeal \/ CallDrawCard]_vars

(***************************************************************************)
(* Card.from_index called on any integer index.  The method holds no raise *)
(* statement and no range test: every call returns a Card.                 *)
(***************************************************************************)
\* the indices passed reach IndexSlack below 0 and above 33
IndexSlack == 8

\* the outcome of a call: whether it raised, and the Card returned
call_from_index(index) == [raised |-> FALSE, card |-> from_index(index)]

InitIndex ==
    /\ include_honors \in BOOLEAN
    /\ \E index \in 0 - IndexSlack .. 33 + IndexSlack :
          q = [op |-> "from_index", index |-> index, returned |-> FALSE]
    /\ NoReturn
    /\ Constructed

CallFromIndex ==
    /\ q.op = "from_index"
    /\ ~q.returned
    /\ q' = [q EXCEPT !.returned = TRUE]
    /\ r_val' = [op |-> "from_index", value |-> call_from_index(q.index)]
    /\ UNCHANGED <<include_honors, r_hu, r_ting, r_chi, sim_vars>>

SpecIndex == InitIndex /\ [][CallFromIndex]_vars

(***************************************************************************)
(* _can_form_groups as the source runs it on its one Counter object: each  *)
(* branch changes card_counts in place, calls itself, and on failure puts  *)
(* the counts back.  A result holds the value returned, the counters the   *)
(* call leaves behind, and the return statement that produced the value:   *)
(* "base" (line 265), "triplet" (274), "wild_triplet" (283), "run" (315),  *)
(* "wildcards" (324) or "fail" (326).                                      *)
(***************************************************************************)
RECURSIVE form_groups(_, _, _, _)

\* lines 271-275: the natural triplet at kind i
triplet_branch(card_counts, magic_count, groups_needed, tkc, i) ==
    IF card_counts[i] >= 3
    THEN LET r == form_groups([card_counts EXCEPT ![i] = @ - 3],
                              magic_count, groups_needed - 1, tkc)
         IN  IF r.ok THEN [ok |-> TRUE, counts |-> r.counts, how |-> "triplet"]
             ELSE [ok |-> FALSE, counts |-> [r.counts EXCEPT ![i] = @ + 3],
                   how |-> "fail"]
    ELSE [ok |-> FALSE, counts |-> card_counts, how |-> "fail"]

\* lines 278-284: the triplet at kind i completed with wildcards
wild_triplet_branch(card_counts, magic_count, groups_needed, tkc, i) ==
    IF card_counts[i] + magic_count >= 3
    THEN LET used_magic == 3 - card_counts[i]
             old_count == card_counts[i]
             r == form_groups([card_counts EXCEPT ![i] = 0],
                              magic_count - used_magic, groups_needed - 1, tkc)
         IN  IF r.ok
             THEN [ok |-> TRUE, counts |-> r.counts, how |-> "wild_triplet"]
             ELSE [ok |-> FALSE, counts |-> [r.counts EXCEPT ![i] = old_count],
                   how |-> "fail"]
    ELSE [ok |-> FALSE, counts |-> card_counts, how |-> "fail"]

\* lines 287-309: the run branch at kind i is entered
run_entered(card_counts, magic_count, i) ==
    /\ i < 27
    /\ i % 9 <= 6
    /\ RunTotalHave(card_counts, i) + magic_count >= 3

\* lines 317-318: card_counts[idx] += cnt for the entries of "needed",
\* which was built from the counters "before" the run was taken
RunGiveBack(card_counts, before, i) ==
    LET give(cc, idx) == IF before[idx] > 0 THEN [cc EXCEPT ![idx] = @ + 1]
                         ELSE cc
    IN  give(give(give(card_counts, i), i + 1), i + 2)

run_branch_no_undo(card_counts, magic_count, groups_needed, tkc, i) ==
    IF run_entered(card_counts, magic_count, i)
    THEN LET remaining_needed == 3 - RunTotalHave(card_counts, i)
             r == IF remaining_needed <= magic_count
                  THEN form_groups(RunCounts(card_counts, i),
                                   magic_count - remaining_needed,
                                   groups_needed - 1, tkc)
                  ELSE [ok |-> FALSE, counts |-> RunCounts(card_counts, i),
                        how |-> "fail"]
         IN  IF r.ok THEN [ok |-> TRUE, counts |-> r.counts, how |-> "run"]
             ELSE [ok |-> FALSE, counts |-> r.counts, how |-> "fail"]
    ELSE [ok |-> FALSE, counts |-> card_counts, how |-> "fail"]

\* lines 287-318: the run {i, i+1, i+2}
run_branch(card_counts, magic_count, groups_needed, tkc, i) ==
    IF run_entered(card_counts, magic_count, i)
    THEN LET remaining_needed == 3 - RunTotalHave(card_counts, i)
             r == IF remaining_needed <= magic_count
                  THEN form_groups(RunCounts(card_counts, i),
                                   magic_count - remaining_needed,
                                   groups_needed - 1, tkc)
                  ELSE [ok |-> FALSE, counts |-> RunCounts(card_counts, i),
                        how |-> "fail"]
         IN  IF r.ok THEN [ok |-> TRUE, counts |-> r.counts, how |-> "run"]
             ELSE [ok |-> FALSE,
                   counts |-> RunGiveBack(r.counts, card_counts, i),
                   how |-> "fail"]
    ELSE [ok |-> FALSE, counts |-> card_counts, how |-> "fail"]

\* lines 323-326: what the call returns once no branch returned True
wildcards_alone(card_counts, magic_count, groups_needed) ==
    IF magic_count >= groups_needed * 3
    THEN [ok |-> TRUE, counts |-> card_counts, how |-> "wildcards"]
    ELSE [ok |-> FALSE, counts |-> card_counts, how |-> "fail"]

form_groups(card_counts, magic_count, groups_needed, tkc) ==
    IF groups_needed = 0
    THEN [ok |-> SumValues(card_counts) <= magic_count,
          counts |-> card_counts, how |-> "base"]
    ELSE
      LET i == FirstKind(card_counts, tkc)
      IN  IF i = -1
          THEN wildcards_alone(card_counts, magic_count, groups_needed)
          ELSE
            LET t == triplet_branch(card_counts, magic_count, groups_needed, tkc, i)
            IN  IF t.ok THEN t
                ELSE
                  LET w == wild_triplet_branch(t.counts, magic_count,
                                               groups_needed, tkc, i)
                  IN  IF w.ok THEN w
                      ELSE
                        LET r == run_branch(w.counts, magic_count,
                                            groups_needed, tkc, i)
                        IN  IF r.ok THEN r
                            ELSE wildcards_alone(r.counts, magic_count,
                                                 groups_needed)

(***************************************************************************)
(* The calls of _can_form_groups, one frame at a time.  Init draws the     *)
(* arguments of a call; a frame either returns, or the search descends     *)
(* into the child call of a branch the source reaches (a later branch is   *)
(* reached only when the earlier ones returned False).  r_val records the  *)
(* step: for a descent, the branch, the kind i, the counters at entry of   *)
(* the caller, and the counters and budget the caller held when it took    *)
(* the branch.                                                             *)
(***************************************************************************)
\* counters are drawn over the first NumGroupKinds kinds of GroupKindOrder
\* (1 wan, 2 wan, 3 wan, east wind, 9 wan, 4 wan), the budget from
\* 0 .. MaxGroupMagic, groups_needed from 0 .. MaxGroups
NumGroupKinds == 4
MaxGroupMagic == 3
MaxGroups == 2

GroupKindOrder == <<0, 1, 2, 27, 8, 3, 4>>

GroupKinds == {GroupKindOrder[n] : n \in 1 .. NumGroupKinds}

GroupCounters ==
    {[k \in IndexRange |-> IF k \in GroupKinds THEN f[k] ELSE 0] :
        f \in [GroupKinds -> 0 .. CopiesPerKind]}

Frame(card_counts, magic_count, groups_needed) ==
    [op |-> "can_form_groups", card_counts |-> card_counts,
     magic_count |-> magic_count, groups_needed |-> groups_needed,
     returned |-> FALSE]

InitGroups ==
    /\ include_honors \in BOOLEAN
    /\ \E cc \in GroupCounters, m \in 0 .. MaxGroupMagic, g \in 0 .. MaxGroups :
          q = Frame(cc, m, g)
    /\ NoReturn
    /\ Constructed

\* the frame is running and its loop found a kind with tiles
Searching ==
    /\ q.op = "can_form_groups"
    /\ ~q.returned
    /\ q.groups_needed > 0
    /\ FirstKind(q.card_counts, tile_kind_count(include_honors)) # -1

Descent(branch, i, counts, child) ==
    /\ q' = child
    /\ r_val' = [op |-> "descend", branch |-> branch, kind |-> i,
                 entry |-> q.card_counts, counts |-> counts,
                 magic_count |-> q.magic_count]
    /\ UNCHANGED <<include_honors, r_hu, r_ting, r_chi, sim_vars>>

\* line 273
EnterTriplet ==
    /\ Searching
    /\ LET tkc == tile_kind_count(include_honors)
           i == FirstKind(q.card_counts, tkc)
       IN  /\ q.card_counts[i] >= 3
           /\ Descent("triplet", i, q.card_counts,
                      Frame([q.card_counts EXCEPT ![i] = @ - 3],
                            q.magic_count, q.groups_needed - 1))

\* line 282
EnterWildTriplet ==
    /\ Searching
    /\ LET tkc == tile_kind_count(include_honors)
           i == FirstKind(q.card_counts, tkc)
           t == triplet_branch(q.card_counts, q.magic_count,
                               q.groups_needed, tkc, i)
       IN  /\ ~t.ok
           /\ t.counts[i] + q.magic_count >= 3
           /\ Descent("wild_triplet", i, t.counts,
                      Frame([t.counts EXCEPT ![i] = 0],
                            q.magic_count - (3 - t.counts[i]),
                            q.groups_needed - 1))

\* line 314
EnterRun ==
    /\ Searching
    /\ LET tkc == tile_kind_count(include_honors)
           i == FirstKind(q.card_counts, tkc)
           t == triplet_branch(q.card_counts, q.magic_count,
                               q.groups_needed, tkc, i)
           w == wild_triplet_branch(t.counts, q.magic_count,
                                    q.groups_needed, tkc, i)
       IN  /\ ~t.ok
           /\ ~w.ok
           /\ run_entered(w.counts, q.magic_count, i)
           /\ 3 - RunTotalHave(w.counts, i) <= q.magic_count
           /\ Descent("run", i, w.counts,
                      Frame(RunCounts(w.counts, i),
                            q.magic_count - (3 - RunTotalHave(w.counts, i)),
                            q.groups_needed - 1))

ReturnGroups ==
    /\ q.op = "can_form_groups"
    /\ ~q.returned
    /\ q' = [q EXCEPT !.returned = TRUE]
    /\ r_val' = [op |-> "return",
                 value |-> form_groups(q.card_counts, q.magic_count,
                                       q.groups_needed,
                                       tile_kind_count(include_honors))]
    /\ UNCHANGED <<include_honors, r_hu, r_ting, r_chi, sim_vars>>

NextGroups == EnterTriplet \/ EnterWildTriplet \/ EnterRun \/ ReturnGroups

SpecGroups == InitGroups /\ [][NextGroups]_vars

(***************************************************************************)
(* The legality queries as they act on objects.  A call reaches the list   *)
(* passed as hand and, through self, the wall, the discard pile and the    *)
(* wildcard; the seat's meld lists exist beside them.  It creates the      *)
(* objects its local names are bound to: test_hand (get_ting_cards, line   *)
(* 339), card_counts (can_hu, line 193) and temp_counts (_check_standard,  *)
(* line 241).  objects maps each name to the object's value; a parameter   *)
(* is the name of the object the caller passed, so a callee that writes    *)
(* through its parameter writes the caller's object.  Every query returns  *)
(* its value and the objects as it leaves them.                            *)
(***************************************************************************)
LegalityOps == {"can_peng", "can_gang", "can_chi", "can_hu", "get_ting_cards"}

\* the queries that take a claimed tile
TakesCard(op) == op \in {"can_peng", "can_gang", "can_chi"}

\* the objects at the moment of a call, no local name bound yet
Objects(hand, peng_cards, gang_cards, game_wall, game_discarded, game_magic) ==
    [hand |-> hand, peng_cards |-> peng_cards, gang_cards |-> gang_cards,
     wall |-> game_wall, discarded |-> game_discarded,
     magic_card |-> game_magic,
     test_hand |-> <<>>, card_counts |-> <<>>, temp_counts |-> <<>>]

\* can_peng, can_gang, can_chi: generator expressions over the list, no write
can_peng_on(objects, hand, card) ==
    [value |-> can_peng(objects[hand], card), objects |-> objects]

can_gang_on(objects, hand, card) ==
    [value |-> can_gang(objects[hand], card), objects |-> objects]

can_chi_on(objects, hand, card, player_pos, discarder_pos) ==
    [value |-> can_chi(objects[hand], card, player_pos, discarder_pos),
     objects |-> objects]

\* one pass of the loop of _check_standard once the eye is taken off
\* temp_counts: _can_form_groups searches in place on that Counter
standard_groups(objects, taken, tkc) ==
    IF ~taken.ok
    THEN [ok |-> FALSE, objects |-> [objects EXCEPT !.temp_counts = taken.counts]]
    ELSE LET r == form_groups(taken.counts, taken.magic, 4, tkc)
         IN  [ok |-> r.ok,
              objects |-> [objects EXCEPT !.temp_counts = r.counts]]

RECURSIVE check_standard_on(_, _, _, _)

\* the rest of the loop after the pass for jiang_index
standard_next(pass, magic_count, tkc, jiang_index) ==
    IF pass.ok
    THEN [ok |-> TRUE, jiang |-> from_index(jiang_index),
          objects |-> pass.objects]
    ELSE check_standard_on(pass.objects, magic_count, tkc, jiang_index + 1)

\* _check_standard from jiang_index on: temp_counts = card_counts.copy(),
\* the eye taken off temp_counts, then the group search on temp_counts
check_standard_on(objects, magic_count, tkc, jiang_index) ==
    IF jiang_index >= tkc
    THEN [ok |-> FALSE, jiang |-> NoCard, objects |-> objects]
    ELSE IF ~is_jiang(from_index(jiang_index))
    THEN check_standard_on(objects, magic_count, tkc, jiang_index + 1)
    ELSE standard_next(
             standard_groups(
                 [objects EXCEPT !.temp_counts = objects.card_counts],
                 TakeJiang(objects.card_counts, magic_count, jiang_index),
                 tkc),
             magic_count, tkc, jiang_index)

\* the value can_hu returns for the outcome of _check_standard
standard_value(std) ==
    [value |-> IF std.ok
               THEN [ok |-> TRUE, type |-> "pinghu", jiang |-> std.jiang]
               ELSE NotHu,
     objects |-> std.objects]

\* can_hu with card_counts bound to its new Counter
can_hu_counted(objects, magic_count, honors) ==
    IF check_qidui(objects.card_counts, magic_count)
    THEN [value |-> [ok |-> TRUE, type |-> "qidui", jiang |-> NoCard],
          objects |-> objects]
    ELSE standard_value(check_standard_on(objects, magic_count,
                                          tile_kind_count(honors), 0))

\* can_hu: card_counts = Counter(c.to_index() for c in hand), a new object
can_hu_on(objects, hand, magic_count, honors) ==
    can_hu_counted([objects EXCEPT !.card_counts = Counter(objects[hand])],
                   magic_count, honors)

\* test_hand = hand; test_hand.append(test_card): the caller's list grows
bind_test_hand_aliasing(objects, hand, test_card) ==
    [name |-> hand,
     objects |-> [objects EXCEPT ![hand] = Append(@, test_card)]]

\* test_hand = hand + [test_card]: the name test_hand is bound to a new list
bind_test_hand(objects, hand, test_card) ==
    [name |-> "test_hand",
     objects |-> [objects EXCEPT !.test_hand = objects[hand] \o <<test_card>>]]

RECURSIVE ting_loop_on(_, _, _, _, _, _)

\* the rest of the loop after can_hu returned for kind i
ting_next(hu, hand, magic_count, honors, i, ting_cards) ==
    IF hu.value.ok
    THEN ting_loop_on(hu.objects, hand, magic_count, honors, i + 1,
                      ting_cards \cup {from_index(i)})
    ELSE ting_loop_on(hu.objects, hand, magic_count, honors, i + 1,
                      ting_cards)

\* can_hu(test_hand, magic_count) on the list just bound
ting_can_hu(bound, magic_count, honors) ==
    can_hu_on(bound.objects, bound.name, magic_count, honors)

\* get_ting_cards: the loop over range(tile_kind_count) from kind i on
ting_loop_on(objects, hand, magic_count, honors, i, ting_cards) ==
    IF i >= tile_kind_count(honors)
    THEN [value |-> ting_cards, objects |-> objects]
    ELSE ting_next(ting_can_hu(bind_test_hand(objects, hand, from_index(i)),
                               magic_count, honors),
                   hand, magic_count, honors, i, ting_cards)

get_ting_cards_on(objects, hand, magic_count, honors) ==
    ting_loop_on(objects, hand, magic_count, honors, 0, {})

\* one call on the list named "hand": the value returned and the objects
\* as the call leaves them
legality_call(op, objects, magic_count, card, player_pos, discarder_pos, honors) ==
    CASE op = "can_peng" -> can_peng_on(objects, "hand", card)
      [] op = "can_gang" -> can_gang_on(objects, "hand", card)
      [] op = "can_chi" ->
            can_chi_on(objects, "hand", card, player_pos, discarder_pos)
      [] op = "can_hu" -> can_hu_on(objects, "hand", magic_count, honors)
      [] op = "get_ting_cards" ->
            get_ting_cards_on(objects, "hand", magic_count, honors)

\* the queries are made during the first PureTurns turns of a first round
PureTurns == 2

\* seat i asks about its own hand and, for a claim, about any kind of tile
\* as discarded by the seat to act; the seat's lists and the game's are
\* what the call left of them
CallLegality ==
    /\ q = NoQuery
    /\ players # <<>>
    /\ \E op \in LegalityOps, i \in 0 .. 3,
          k \in 0 .. tile_kind_count(include_honors) - 1 :
          /\ TakesCard(op) \/ k = 0
          /\ LET card == IF TakesCard(op) THEN from_index(k) ELSE NoCard
                 call == legality_call(
                             op,
                             Objects(Seat(i).hand, Seat(i).peng_cards,
                                     Seat(i).gang_cards, wall, discarded,
                                     magic_card),
                             Seat(i).magic_count, card, i, current_player,
                             include_honors)
             IN  /\ q' = [op |-> op, hand |-> Seat(i).hand,
                          magic_count |-> Seat(i).magic_count, card |-> card,
                          player_pos |-> i, discarder_pos |-> current_player,
                          returned |-> TRUE]
                 /\ r_val' = [op |-> op, value |-> call.value]
                 /\ players' = [players EXCEPT
                                   ![i + 1].hand = call.objects.hand,
                                   ![i + 1].peng_cards = call.objects.peng_cards,
                                   ![i + 1].gang_cards = call.objects.gang_cards]
                 /\ wall' = call.objects.wall
                 /\ discarded' = call.objects.discarded
                 /\ magic_card' = call.objects.magic_card
    /\ UNCHANGED <<include_honors, r_hu, r_ting, r_chi, current_player,
                   winner, win_type, pc, turn, discard, round_result,
                   games_done, results>>

\* the round runs until a query is made, the round returns or PureTurns pass
PureStep(A) == q = NoQuery /\ turn < PureTurns /\ games_done = 0 /\ A

NextPure ==
    \/ PureStep(InitGame)
    \/ PureStep(DrawCard)
    \/ PureStep(CheckZimo)
    \/ PureStep(Discard)
    \/ PureStep(CheckDianpao)
    \/ CallLegality

SpecPure == Init /\ [][NextPure]_vars

(***************************************************************************)
(* MahjongAssistant (mahjong_complete.py): the discard recommendation.     *)
(* An assistant is its hand, the wildcard tile set by set_magic (NoCard    *)
(* when none was set), magic_count, and the discard, triplet and quad      *)
(* histories of the four seats.  The source's float scores are kept exact  *)
(* by scaling: isolation in tenths, danger in twentieths, and a score in   *)
(* units of 1/135 (improvement is a multiple of 1/27, danger * 12 of 3/5). *)
(***************************************************************************)
\* Python floats are IEEE-754 doubles: every operation returns the double
\* nearest to the exact result, ties to the even significand.  A double x
\* is held as its sign and the integer |x| * 2^60 in three limbs of 24 bits
\* (hi * 2^48 + mid * 2^24 + lo), which is exact for the doubles of
\* magnitude from 2^-8 up to 2^12 and for all their sums and differences.
LimbBase == 2 ^ 24

RECURSIVE BitLen(_)
\* the number of binary digits of n
BitLen(n) == IF n = 0 THEN 0 ELSE 1 + BitLen(n \div 2)

MagBits(m) ==
    IF m[1] > 0 THEN 48 + BitLen(m[1])
    ELSE IF m[2] > 0 THEN 24 + BitLen(m[2])
    ELSE BitLen(m[3])

MagLess(a, b) ==
    \/ a[1] < b[1]
    \/ a[1] = b[1] /\ a[2] < b[2]
    \/ a[1] = b[1] /\ a[2] = b[2] /\ a[3] < b[3]

MagAdd(a, b) ==
    LET lo == a[3] + b[3]
        mid == a[2] + b[2] + lo \div LimbBase
    IN  <<a[1] + b[1] + mid \div LimbBase, mid % LimbBase, lo % LimbBase>>

\* a - b for a >= b
MagSub(a, b) ==
    LET lo == a[3] - b[3]
        borrow_lo == IF lo < 0 THEN 1 ELSE 0
        mid == a[2] - b[2] - borrow_lo
        borrow_mid == IF mid < 0 THEN 1 ELSE 0
    IN  <<a[1] - b[1] - borrow_mid,
          mid + borrow_mid * LimbBase,
          lo + borrow_lo * LimbBase>>

\* a * k for a small natural k
MagTimes(a, k) ==
    LET lo == a[3] * k
        mid == a[2] * k + lo \div LimbBase
    IN  <<a[1] * k + mid \div LimbBase, mid % LimbBase, lo % LimbBase>>

\* the exact value m, plus a nonzero part below the last limb when sticky,
\* rounded to 53 significant bits, ties to even
RoundMag(m, sticky) ==
    LET cut == MagBits(m) - 53
    IN  IF cut <= 0 THEN m
        ELSE LET unit == 2 ^ cut
                 rest == m[3] % unit
                 down == <<m[1], m[2], m[3] - rest>>
                 odd == (m[3] \div unit) % 2 = 1
                 up == \/ 2 * rest > unit
                       \/ 2 * rest = unit /\ (sticky \/ odd)
             IN  IF up THEN MagAdd(down, <<0, 0, unit>>) ELSE down

Float(neg, mag) == [neg |-> neg /\ mag # <<0, 0, 0>>, mag |-> mag]

\* float(n) for an int n
float_of(n) == Float(n < 0, <<(IF n < 0 THEN 0 - n ELSE n) * 2 ^ 12, 0, 0>>)

\* the double nearest to num / den, for small positive ints: a true
\* division, and the value of a decimal literal such as 0.55 = 55 / 100
float_quotient(num, den) ==
    LET top == num * 2 ^ 12
        over_hi == top % den
        over_mid == (over_hi * LimbBase) % den
        over_lo == (over_mid * LimbBase) % den
    IN  Float(FALSE,
              RoundMag(<<top \div den,
                         (over_hi * LimbBase) \div den,
                         (over_mid * LimbBase) \div den>>,
                       over_lo # 0))

\* x + y
float_add(x, y) ==
    IF x.neg = y.neg THEN Float(x.neg, RoundMag(MagAdd(x.mag, y.mag), FALSE))
    ELSE IF MagLess(x.mag, y.mag)
    THEN Float(y.neg, RoundMag(MagSub(y.mag, x.mag), FALSE))
    ELSE Float(x.neg, RoundMag(MagSub(x.mag, y.mag), FALSE))

\* x - y
float_sub(x, y) == float_add(x, Float(~y.neg, y.mag))

\* x * k for a float x and an int k >= 0
float_times(x, k) == Float(x.neg, RoundMag(MagTimes(x.mag, k), FALSE))

\* x < y
float_less(x, y) ==
    IF x.neg /\ ~y.neg THEN TRUE
    ELSE IF ~x.neg /\ y.neg THEN FALSE
    ELSE IF x.neg THEN MagLess(y.mag, x.mag)
    ELSE MagLess(x.mag, y.mag)

\* the engine of a MahjongAssistant is ShandongMahjong(): 27 kinds
AssistantHonors == FALSE

RECURSIVE Flatten(_)
\* the tiles of a list of groups, in order
Flatten(groups) ==
    IF groups = <<>> THEN <<>> ELSE Head(groups) \o Flatten(Tail(groups))

\* every tile the assistant can see: hand, discards, triplets, quads
VisibleTiles(a) ==
    a.hand
    \o a.discard_history[0] \o a.discard_history[1]
    \o a.discard_history[2] \o a.discard_history[3]
    \o Flatten(a.peng_history[0] \o a.peng_history[1]
               \o a.peng_history[2] \o a.peng_history[3])
    \o Flatten(a.gang_history[0] \o a.gang_history[1]
               \o a.gang_history[2] \o a.gang_history[3])

\* _build_visible_counts followed by _remaining_count
remaining_count(a, card) ==
    LET idx == to_index(card)
        tkc == tile_kind_count(AssistantHonors)
        seen == CountIn(VisibleTiles(a), card)
    IN  IF idx >= tkc THEN 0
        ELSE IF 4 - seen > 0 THEN 4 - seen ELSE 0

\* _calculate_isolation: 1.0, 0.7, 0.4 or 0.0
assistant_isolation(a, card) ==
    IF card.type \in {FENG, JIAN}
    THEN (IF CountIn(a.hand, card) >= 2 THEN float_of(0) ELSE float_of(1))
    ELSE LET adjacent_count ==
                 LET RECURSIVE Adj(_)
                     Adj(delta) ==
                         IF delta > 2 THEN 0
                         ELSE (IF 1 <= card.value + delta /\ card.value + delta <= 9
                               THEN CountIn(a.hand, Card(card.type, card.value + delta))
                               ELSE 0) + Adj(delta + 1)
                 IN  Adj(-2)
         IN  IF adjacent_count <= 1 THEN float_of(1)
             ELSE IF adjacent_count <= 2 THEN float_quotient(7, 10)
             ELSE IF adjacent_count <= 3 THEN float_quotient(4, 10)
             ELSE float_of(0)

\* _calculate_group_potential: a float with an integer value, held as the int
assistant_group_potential(a, card) ==
    LET count == CountIn(a.hand, card)
        has(v) == IF InHand(a.hand, Card(card.type, v)) THEN 1 ELSE 0
        first == IF card.value - 2 > 1 THEN card.value - 2 ELSE 1
        stop == IF card.value + 1 < 8 THEN card.value + 1 ELSE 8
        RECURSIVE Runs(_)
        Runs(start) ==
            IF start >= stop THEN 0
            ELSE LET have_count == has(start) + has(start + 1) + has(start + 2)
                 IN  (IF have_count = 3 THEN 2
                      ELSE IF have_count = 2 THEN 1 ELSE 0) + Runs(start + 1)
    IN  (IF count >= 3 THEN 3 ELSE IF count = 2 THEN 2 ELSE 0)
        + (IF card.type \in NumberTypes THEN Runs(first) ELSE 0)

\* the opponents (seats 1..3) whose discards hold every tile of "tiles"
OpponentsDiscarded(a, tiles) ==
    Cardinality({pid \in 1 .. 3 :
                    \A c \in tiles : InHand(a.discard_history[pid], c)})

\* _suji_support_count
suji_support_count(a, card) ==
    LET middle == IF card.value \in {1, 7} THEN 4
                  ELSE IF card.value \in {2, 8} THEN 5
                  ELSE IF card.value \in {3, 9} THEN 6
                  ELSE 0
    IN  IF card.type \notin NumberTypes \/ middle = 0 THEN 0
        ELSE OpponentsDiscarded(a, {Card(card.type, middle)})

\* _nakasuji_support_count
nakasuji_support_count(a, card) ==
    IF card.type \notin NumberTypes \/ card.value < 4 \/ card.value > 6 THEN 0
    ELSE OpponentsDiscarded(a, {Card(card.type, card.value - 3),
                                Card(card.type, card.value + 3)})

\* _early_outside_support_count: opponents whose first middle tile (4..6)
\* of the card's suit was among their first three discards
early_outside_support_count(a, card) ==
    IF card.type \notin NumberTypes \/ card.value \notin {1, 2, 8, 9} THEN 0
    ELSE Cardinality(
           {pid \in 1 .. 3 :
              \E n \in DOMAIN a.discard_history[pid] :
                 /\ n <= 3
                 /\ a.discard_history[pid][n].type = card.type
                 /\ a.discard_history[pid][n].value \in 4 .. 6})

\* _ryanmen_potential
ryanmen_potential(a, card) ==
    LET side(left, right) ==
            IF 1 <= left /\ left <= 9 /\ 1 <= right /\ right <= 9
            THEN remaining_count(a, Card(card.type, left))
                 * remaining_count(a, Card(card.type, right))
            ELSE 0
    IN  IF card.type \notin NumberTypes THEN 0
        ELSE side(card.value - 2, card.value - 1)
             + side(card.value + 1, card.value + 2)

\* _kabe_class
kabe_class(a, card) ==
    LET potential == ryanmen_potential(a, card)
    IN  IF potential <= 0 THEN "no_chance"
        ELSE IF potential <= 4 THEN "one_chance"
        ELSE "normal"

\* max(x, y) and min(x, y) of two floats: the first argument unless the
\* second is strictly greater, respectively smaller
float_max(x, y) == IF float_less(x, y) THEN y ELSE x

float_min(x, y) == IF float_less(y, x) THEN y ELSE x

\* _assess_card_danger: the float sum, in the order of the code.  A statement
\* the code skips is written as the addition of 0.0, which returns its
\* operand; danger -= 2.0 is the addition of -2.0.
assess_card_danger(a, card) ==
    LET seen_count == CountIn(a.discard_history[0] \o a.discard_history[1]
                              \o a.discard_history[2] \o a.discard_history[3],
                              card)
        number == card.type \in NumberTypes
        suji == suji_support_count(a, card)
        nakasuji == nakasuji_support_count(a, card)
        kabe == kabe_class(a, card)
        by_seen ==
            float_add(float_of(0),
                      IF seen_count = 0 THEN float_of(3)
                      ELSE IF seen_count = 1 THEN float_quotient(15, 10)
                      ELSE IF seen_count >= 3 THEN float_of(-2)
                      ELSE float_of(0))
        by_middle ==
            float_add(by_seen,
                      IF number /\ 3 <= card.value /\ card.value <= 7
                      THEN float_of(2) ELSE float_of(0))
        by_suji ==
            float_sub(by_middle,
                      float_times(float_quotient(55, 100),
                                  IF number THEN suji ELSE 0))
        by_nakasuji ==
            float_sub(by_suji,
                      float_times(float_quotient(75, 100),
                                  IF number THEN nakasuji ELSE 0))
        by_early ==
            float_sub(by_nakasuji,
                      float_times(float_quotient(45, 100),
                                  IF number
                                  THEN early_outside_support_count(a, card)
                                  ELSE 0))
        by_kabe ==
            float_sub(by_early,
                      IF number /\ kabe = "no_chance"
                      THEN float_quotient(22, 10)
                      ELSE IF number /\ kabe = "one_chance" THEN float_of(1)
                      ELSE float_of(0))
        by_caution ==
            float_add(by_kabe,
                      IF number /\ (suji > 0 \/ nakasuji > 0 \/ kabe # "normal")
                      THEN float_quotient(25, 100) ELSE float_of(0))
    IN  float_max(Float(TRUE, float_quotient(35, 10).mag),
                  float_min(float_of(6), by_caution))

\* len(ting_cards) / float(tile_kind_count), or 0.0 for no waits
improvement_of(count, tkc) ==
    IF count = 0 THEN float_of(0) ELSE float_quotient(count, tkc)

\* _calculate_improvement: the share of the kinds that complete the hand
\* without the card
assistant_improvement(a, card) ==
    improvement_of(
        Cardinality(get_ting_cards(SelectSeq(a.hand, LAMBDA c : c # card),
                                   a.magic_count, AssistantHonors)),
        tile_kind_count(AssistantHonors))

\* _evaluate_card: the float sum, in the order of the code; the step for a
\* tile that is no 2, 5 or 8 is written as the subtraction of 0.0
assistant_evaluate_card(a, card) ==
    LET by_isolation == float_add(float_of(0),
                                  float_times(assistant_isolation(a, card), 10))
        by_potential ==
            float_sub(by_isolation,
                      float_times(float_of(assistant_group_potential(a, card)),
                                  8))
        by_jiang == float_sub(by_potential,
                              IF is_jiang(card) THEN float_of(15)
                              ELSE float_of(0))
        by_danger == float_add(by_jiang,
                               float_times(assess_card_danger(a, card), 12))
    IN  float_sub(by_danger, float_times(assistant_improvement(a, card), 20))

\* the score _recommend_discard gives a tile of the hand
recommend_score(a, card) ==
    IF a.magic_card # NoCard /\ card = a.magic_card
    THEN float_of(-1000)
    ELSE assistant_evaluate_card(a, card)

RECURSIVE recommend_scores(_, _)
\* card_scores: the scores of hand[n:], in hand order
recommend_scores(a, n) ==
    IF n > Len(a.hand) THEN <<>>
    ELSE <<recommend_score(a, a.hand[n])>> \o recommend_scores(a, n + 1)

\* the first position of the lowest score: where the stable ascending sort
\* of card_scores takes its first entry from
first_lowest(scores) ==
    CHOOSE n \in DOMAIN scores :
        /\ \A k \in DOMAIN scores : ~float_less(scores[k], scores[n])
        /\ \A k \in 1 .. n - 1 : float_less(scores[n], scores[k])

\* _recommend_discard: "recommended" is the first entry of the stable sort
\* by score, the first tile of the hand with the lowest score
recommend_discard(a) ==
    IF a.hand = <<>> THEN NoCard
    ELSE a.hand[first_lowest(recommend_scores(a, 1))]

\* MahjongAssistant(), then set_magic (unless magic is NoCard) and set_hand
assistant(hand, magic) ==
    [hand |-> hand,
     magic_card |-> magic,
     magic_count |-> IF magic = NoCard THEN 0 ELSE CountIn(hand, magic),
     discard_history |-> [pid \in 0 .. 3 |-> <<>>],
     peng_history |-> [pid \in 0 .. 3 |-> <<>>],
     gang_history |-> [pid \in 0 .. 3 |-> <<>>]]

\* record_discard, record_peng, record_gang: one more entry in the seat's
\* list (player_id is one of the four keys)
record_discard(a, player_id, card) ==
    [a EXCEPT !.discard_history[player_id] = Append(@, card)]

record_peng(a, player_id, cards) ==
    [a EXCEPT !.peng_history[player_id] = Append(@, cards)]

record_gang(a, player_id, cards) ==
    [a EXCEPT !.gang_history[player_id] = Append(@, cards)]

\* hands of AssistSizes tiles over the first NumAssistKinds kinds of
\* AssistKindOrder (5 wan, 6 wan, 7 wan, 9 wan, 5 tong, 1 tiao); the
\* wildcard is one of these kinds or not set; before the recommendation is
\* asked the seats in AssistDiscardSeats discard up to MaxAssistDiscards
\* tiles, and the seats in AssistMeldSeats expose up to MaxAssistMelds
\* triplets or quads of the kinds in AssistMeldKinds
NumAssistKinds == 4
MaxAssistDiscards == 1
MaxAssistMelds == 1

AssistSizes == {2, 5, 14}

AssistKindOrder == <<4, 5, 6, 8, 13, 18>>

AssistKinds == {AssistKindOrder[n] : n \in 1 .. NumAssistKinds}

AssistMeldKinds == {AssistKindOrder[2]}

AssistDiscardSeats == {1}

AssistMeldSeats == {2}

AssistHands ==
    {HandFrom(cv, 0) :
        cv \in {f \in [AssistKinds -> 0 .. CopiesPerKind] :
                   SumOver(f, AssistKinds) \in AssistSizes}}

\* the number of entries over the four seats of a history
Recorded(history) ==
    Len(history[0]) + Len(history[1]) + Len(history[2]) + Len(history[3])

InitAssistant ==
    /\ include_honors = AssistantHonors
    /\ \E hand \in AssistHands,
          magic \in {NoCard} \cup {from_index(k) : k \in AssistKinds} :
          q = [op |-> "recommend_discard",
               assistant |-> assistant(hand, magic),
               returned |-> FALSE]
    /\ NoReturn
    /\ Constructed

\* the table is still being recorded: the recommendation is not yet asked
Recording ==
    /\ q.op = "recommend_discard"
    /\ ~q.returned

CallRecordDiscard ==
    /\ Recording
    /\ Recorded(q.assistant.discard_history) < MaxAssistDiscards
    /\ \E player_id \in AssistDiscardSeats, k \in AssistKinds :
          q' = [q EXCEPT !.assistant =
                            record_discard(@, player_id, from_index(k))]
    /\ UNCHANGED <<include_honors, r_hu, r_ting, r_chi, r_val, sim_vars>>

CallRecordPeng ==
    /\ Recording
    /\ Recorded(q.assistant.peng_history)
          + Recorded(q.assistant.gang_history) < MaxAssistMelds
    /\ \E player_id \in AssistMeldSeats, k \in AssistMeldKinds :
          q' = [q EXCEPT !.assistant =
                            record_peng(@, player_id,
                                        <<from_index(k), from_index(k),
                                          from_index(k)>>)]
    /\ UNCHANGED <<include_honors, r_hu, r_ting, r_chi, r_val, sim_vars>>

CallRecordGang ==
    /\ Recording
    /\ Recorded(q.assistant.peng_history)
          + Recorded(q.assistant.gang_history) < MaxAssistMelds
    /\ \E player_id \in AssistMeldSeats, k \in AssistMeldKinds :
          q' = [q EXCEPT !.assistant =
                            record_gang(@, player_id,
                                        <<from_index(k), from_index(k),
                                          from_index(k), from_index(k)>>)]
    /\ UNCHANGED <<include_honors, r_hu, r_ting, r_chi, r_val, sim_vars>>

CallRecommendDiscard ==
    /\ Recording
    /\ q' = [q EXCEPT !.returned = TRUE]
    /\ r_val' = [op |-> "recommend_discard",
                 value |-> recommend_discard(q.assistant)]
    /\ UNCHANGED <<include_honors, r_hu, r_ting, r_chi, sim_vars>>

NextAssistant ==
    \/ CallRecordDiscard
    \/ CallRecordPeng
    \/ CallRecordGang
    \/ CallRecommendDiscard

SpecAssistant == InitAssistant /\ [][NextAssistant]_vars

\* a step of the simulator is possible: a round is running, or
\* simulate_games has rounds left to play
NextEnabled == pc # "next_game" \/ games_done < NumGames

\* simulate_games as a running program: the simulator is one sequential
\* thread, so a step that can be taken is taken.  This is WF_vars(Next),
\* with ENABLED <<Next>>_vars written as the state predicate NextEnabled.
SpecRun == Spec /\ ([]<>(~NextEnabled) \/ []<><<Next>>_vars)

(***************************************************************************)
(* AIGameSimulator (advanced_ai.py): start-up.  The simulator builds       *)
(* ShandongMahjong(), the 27-kind engine, deals, and initialises seat 0 as *)
(* an AdvancedMahjongAI and seats 1..3 as MahjongAI.  A subscript of a     *)
(* dict with a key it does not hold raises KeyError.                       *)
(***************************************************************************)
\* AdvancedMahjongAI.init_hand: MahjongAI.init_hand, then the loop that
\* reads estimated_wall[idx] for idx in range(34)
advanced_init_hand(player_id, hand, magic, tkc) ==
    LET base == init_hand(player_id, hand, magic, tkc)
    IN  [raised |-> \/ base.raised
                    \/ \E idx \in 0 .. 33 : idx \notin DOMAIN base.estimated_wall,
         player |-> base]

\* AIGameSimulator.init_game on a deal: whether it raised, and self.players
\* (emptied before the loop, appended to after each init_hand)
ai_init_game(deal, tkc) ==
    LET first == advanced_init_hand(0, deal.hands[0], deal.magic_card, tkc)
    IN  IF first.raised THEN [raised |-> TRUE, players |-> <<>>]
        ELSE [raised |-> FALSE,
              players |-> [n \in 1 .. 4 |->
                             IF n = 1 THEN first.player
                             ELSE init_hand(n - 1, deal.hands[n - 1],
                                            deal.magic_card, tkc)]]

\* the deals of start-up: the shuffles of the simulator applied to the
\* tile list rotated by up to NumStartRotations - 1 places
NumStartRotations == 60

Rotate(cards, b) ==
    SubSeq(cards, b + 1, Len(cards)) \o SubSeq(cards, 1, b)

InitAIStart ==
    /\ include_honors = FALSE
    /\ q = [op |-> "ai_init_game", returned |-> FALSE]
    /\ NoReturn
    /\ Constructed

CallAIInitGame ==
    /\ q.op = "ai_init_game"
    /\ ~q.returned
    /\ \E s \in 1 .. NumShuffles, b \in 0 .. NumStartRotations - 1 :
          LET deal == shuffle_and_deal(Rotate(init_cards(include_honors), b), s)
              started == ai_init_game(deal, tile_kind_count(include_honors))
          IN  /\ wall' = deal.wall
              /\ magic_card' = deal.magic_card
              /\ players' = started.players
              /\ r_val' = [op |-> "ai_init_game", raised |-> started.raised]
    /\ q' = [q EXCEPT !.returned = TRUE]
    /\ UNCHANGED <<include_honors, r_hu, r_ting, r_chi, discarded,
                   current_player, winner, win_type, pc, turn, discard,
                   round_result, games_done, results>>

SpecAIStart == InitAIStart /\ [][CallAIInitGame]_vars

(***************************************************************************)
(* What a complete hand is, stated apart from the search: a pair of an     *)
(* eligible kind and four groups, each three equal tiles or three           *)
(* consecutive ranks of one numeric suit.                                  *)
(***************************************************************************)
EligiblePairKind(k) == k <= 26 /\ (k % 9) + 1 \in {2, 5, 8}

RunStart(k) == k <= 26 /\ (k % 9) + 1 <= 7

Minus(c, k, n) == [c EXCEPT ![k] = @ - n]

RECURSIVE SplitsIntoGroups(_, _)
SplitsIntoGroups(c, n) ==
    IF n = 0 THEN \A k \in IndexRange : c[k] = 0
    ELSE \E k \in IndexRange :
            \/ /\ c[k] >= 3
               /\ SplitsIntoGroups(Minus(c, k, 3), n - 1)
            \/ /\ RunStart(k)
               /\ c[k] >= 1 /\ c[k + 1] >= 1 /\ c[k + 2] >= 1
               /\ SplitsIntoGroups(Minus(Minus(Minus(c, k, 1), k + 1, 1), k + 2, 1),
                                   n - 1)

IsStandardHand(c) ==
    \E j \in IndexRange :
        /\ EligiblePairKind(j)
        /\ c[j] >= 2
        /\ SplitsIntoGroups(Minus(c, j, 2), 4)

NaturalPairs(c) == SumOver([k \in IndexRange |-> c[k] \div 2], IndexRange)

Plus(c, k) == [c EXCEPT ![k] = @ + 1]

\* no single added tile completes the hand: it needs two substitutions or more
NeedsTwoSubstitutions(c) ==
    /\ ~IsStandardHand(c)
    /\ \A t \in IndexRange : ~IsStandardHand(Plus(c, t))

\* the tiles held in the four hands
HandTiles == Len(players[1].hand) + Len(players[2].hand)
             + Len(players[3].hand) + Len(players[4].hand)

\* C1: once dealt, in every state of every round of simulate_games, the
\* wall, the set-aside wildcard tile, the four hands and game.discarded
\* together hold as many tiles as the population, 108 without honors.
C1_TileConservation ==
    players # <<>>
        => Len(wall) + 1 + HandTiles + Len(discarded)
              = Len(init_cards(include_honors))

\* C2: at every point of a simulated round every hand holds 13 or 14
\* tiles; no hand reaches 15, the dealer's included.
C2_HandSize13Or14 ==
    players # <<>>
        => \A n \in 1 .. 4 : Len(players[n].hand) \in {13, 14}

HuReturned == q.op = "can_hu" /\ q.returned

\* C3 (as amended): a hand of four groups and one eligible pair, no
\* wildcards, is reported complete; its tag is the standard shape unless the
\* hand also holds seven natural pairs, and then it is seven pairs.
C3_SoundnessUpToSevenPairs ==
    (HuReturned /\ q.magic_count = 0 /\ IsStandardHand(Counter(q.hand)))
        => /\ r_hu.ok
           /\ r_hu.type = (IF NaturalPairs(Counter(q.hand)) >= 7
                           THEN "qidui" ELSE "pinghu")

\* C3 (as the spec states it): every such hand is reported with the
\* standard shape tag.
C3_SoundnessStandardTag ==
    (HuReturned /\ q.magic_count = 0 /\ IsStandardHand(Counter(q.hand)))
        => r_hu.ok /\ r_hu.type = "pinghu"

C3_Witness ==
    /\ HuReturned /\ q.magic_count = 0
    /\ IsStandardHand(Counter(q.hand))
    /\ NaturalPairs(Counter(q.hand)) < 7
    /\ r_hu.type = "pinghu"

\* C4: without wildcards, a 14-tile hand is reported with the standard
\* shape only if it is a pair of an eligible kind and four groups, and is
\* reported not complete when it is neither that nor seven pairs.
C4_StandardExact ==
    (HuReturned /\ q.magic_count = 0 /\ Len(q.hand) = HandSize)
        => /\ r_hu.type = "pinghu" => IsStandardHand(Counter(q.hand))
           /\ (~IsStandardHand(Counter(q.hand))
               /\ NaturalPairs(Counter(q.hand)) < 7) => ~r_hu.ok

\* C5: a hand of 13 natural tiles that needs two wildcard substitutions or
\* more, and has fewer than six natural pairs, is reported not complete
\* with one wildcard.
C5_OneWildcardNotTwo ==
    (HuReturned /\ q.magic_count = 1 /\ Len(q.hand) = HandSize - 1
     /\ NeedsTwoSubstitutions(Counter(q.hand))
     /\ NaturalPairs(Counter(q.hand)) + 1 < 7)
        => ~r_hu.ok

SixPairsTwoSingles(c) == SumValues(c) = HandSize /\ NaturalPairs(c) = 6

\* C6: a 14-tile hand of six pairs and two singles, no wildcards, is
\* reported incomplete.  The hands of this form that are themselves four
\* groups and an eligible pair are left aside here: the rule of the standard
\* shape makes them complete.
C6_SixPairsIncomplete ==
    (/\ HuReturned /\ q.magic_count = 0
     /\ SixPairsTwoSingles(Counter(q.hand))
     /\ ~IsStandardHand(Counter(q.hand)))
        => ~r_hu.ok

\* the pair step and the group search succeed for kind j
EyeSearchSucceeds(j) ==
    LET t == TakeJiang(Counter(q.hand), q.magic_count, j)
    IN  t.ok /\ can_form_groups(t.counts, t.magic, 4,
                                tile_kind_count(include_honors))

\* C7: the eye returned with the standard shape is a numeric tile of rank
\* 2, 5 or 8, whatever the wildcard count, and is the lowest-index eligible
\* kind for which the pair step and the group search succeed.
C7_EyeRestricted ==
    (HuReturned /\ r_hu.type = "pinghu")
        => /\ r_hu.jiang.type \in {WAN, TONG, TIAO}
           /\ r_hu.jiang.value \in {2, 5, 8}
           /\ EyeSearchSucceeds(to_index(r_hu.jiang))
           /\ \A j \in 0 .. to_index(r_hu.jiang) - 1 :
                 EligiblePairKind(j) => ~EyeSearchSucceeds(j)

\* the standard shape with an eye made of two wildcards
C7_Witness ==
    /\ HuReturned /\ r_hu.type = "pinghu"
    /\ q.magic_count >= 2
    /\ Counter(q.hand)[to_index(r_hu.jiang)] = 0

\* C8: a kind of the alphabet is in the waiting set iff the hand with one
\* tile of that kind added is reported complete; no other kind is in it.
C8_WaitingSetConsistent ==
    (q.op = "get_ting_cards" /\ q.returned)
        => /\ \A t \in 0 .. tile_kind_count(include_honors) - 1 :
                 from_index(t) \in r_ting
                    <=> can_hu(Append(q.hand, from_index(t)), q.magic_count,
                               include_honors).ok
           /\ \A c \in r_ting :
                 to_index(c) \in 0 .. tile_kind_count(include_honors) - 1

\* a waiting set that holds an honor tile
C8_Witness ==
    /\ q.op = "get_ting_cards" /\ q.returned
    /\ include_honors
    /\ \E c \in r_ting : c.type \in {FENG, JIAN}

ChiReturned == q.op = "can_chi" /\ q.returned

\* C9: can_chi returns the empty list whenever the discarder is not the
\* seat right before the claimant, (discarder_pos - player_pos) mod 4 # 3.
C9_ChiOnlyFromPreviousSeat ==
    (ChiReturned /\ (q.discarder_pos - q.player_pos) % 4 # 3)
        => r_chi = <<>>

\* a claim refused for the seat alone: the same claim from the previous
\* seat has a combination
C9_Witness ==
    /\ ChiReturned
    /\ q.discarder_pos = (q.player_pos + 2) % 4
    /\ r_chi = <<>>
    /\ InHand(q.hand, Card(q.card.type, q.card.value + 1))
    /\ InHand(q.hand, Card(q.card.type, q.card.value + 2))
    /\ q.card.type \in NumberTypes

\* the run in which the claimed tile is member number s (0 low, 1 middle,
\* 2 high), and whether it is a legal claim
ChiShape(s) ==
    <<Card(q.card.type, q.card.value - s),
      Card(q.card.type, q.card.value - s + 1),
      Card(q.card.type, q.card.value - s + 2)>>

ChiLegal(s) ==
    /\ q.card.type \in {WAN, TONG, TIAO}
    /\ q.card.value - s >= 1
    /\ q.card.value - s + 2 <= 9
    /\ \A n \in 1 .. 3 : n # s + 1 => InHand(q.hand, ChiShape(s)[n])

\* C10: from the previous seat, can_chi returns one combination for each
\* shape whose two partners are in the hand, and nothing else; each is
\* three consecutive ranks in 1..9 of the claimed suit holding the claimed
\* tile; for a wind or dragon the result is empty.
C10_ChiEnumeration ==
    (ChiReturned /\ (q.discarder_pos - q.player_pos) % 4 = 3)
        => /\ \A s \in 0 .. 2 :
                 Cardinality({k \in DOMAIN r_chi : r_chi[k] = ChiShape(s)})
                    = (IF ChiLegal(s) THEN 1 ELSE 0)
           /\ \A k \in DOMAIN r_chi :
                 \E s \in 0 .. 2 : r_chi[k] = ChiShape(s) /\ ChiLegal(s)
           /\ q.card.type \in {FENG, JIAN} => r_chi = <<>>

\* all three shapes returned at once
C10_Witness ==
    /\ ChiReturned
    /\ Len(r_chi) = 3

GangReturned == q.op = "can_gang" /\ q.returned

\* C11: the quad by upgrade (can_ming_gang, and MING_GANG from can_gang) is
\* reported only when the player has an exposed triplet of the kind and the
\* hand holds a copy of that kind.
C11_UpgradeQuadNeedsFourth ==
    GangReturned
        => /\ r_val.can_ming_gang
                => HasPeng(q.peng_cards, q.card) /\ CountIn(q.hand, q.card) >= 1
           /\ (r_val.can_gang.ok /\ r_val.can_gang.gang_type = MING_GANG)
                => HasPeng(q.peng_cards, q.card) /\ CountIn(q.hand, q.card) >= 1

\* C12: can_peng, can_gang, can_chi, can_hu and get_ting_cards leave the
\* hand list passed in, the meld lists, the wall and the discard pile as
\* they were, whatever they return.
C12_LegalityQueriesPure ==
    [][CallLegality => /\ players' = players
                       /\ wall' = wall
                       /\ discarded' = discarded
                       /\ magic_card' = magic_card]_vars

\* a waiting set computed for a seat while tiles lie in the discard pile
C12_Witness ==
    /\ q.op = "get_ting_cards" /\ q.returned
    /\ r_val.op = "get_ting_cards" /\ r_val.value # {}
    /\ discarded # <<>>
    /\ players[q.player_pos + 1].hand = q.hand

FanReturned == q.op = "calculate_fan" /\ q.returned

\* the base score of a completion shape: seven pairs above standard
ShapeBase(hu_type) == IF hu_type = "qidui" THEN 4 ELSE 1

\* C13: for a valid shape, calculate_fan returns the shape's base (4 for
\* seven pairs, 1 for standard) plus 2 per declared quad, 1 for self-draw,
\* 1 for the dealer and 1 per wildcard held; the result is a non-negative
\* integer.
C13_ScoreFormula ==
    (FanReturned /\ q.hu_type \in {"qidui", "pinghu"})
        => /\ r_val.value = ShapeBase(q.hu_type)
                            + 2 * Len(q.gang_cards)
                            + (IF q.is_zimo THEN 1 ELSE 0)
                            + (IF q.is_zhuang THEN 1 ELSE 0)
                            + q.magic_count
           /\ r_val.value \in Nat
           /\ ShapeBase("qidui") > ShapeBase("pinghu")

\* seven pairs by self-draw in the dealer seat, two quads, wildcards held
C13_Witness ==
    /\ FanReturned /\ q.hu_type = "qidui"
    /\ Len(q.gang_cards) = 2
    /\ q.is_zimo /\ q.is_zhuang
    /\ q.magic_count = 2
    /\ r_val.value = 12

\* the tiles in the wall left to draw after a deal
WallAfterDeal == Len(init_cards(include_honors)) - DealtTiles

\* the copies of kind k in the dealt hands, the wildcard tile and the wall
DealtCopies(k) ==
    CountIn(q.hands[0], from_index(k)) + CountIn(q.hands[1], from_index(k))
    + CountIn(q.hands[2], from_index(k)) + CountIn(q.hands[3], from_index(k))
    + (IF magic_card = from_index(k) THEN 1 ELSE 0)
    + CountIn(wall, from_index(k))

\* C14: after shuffle_and_deal seat 0 holds 14 tiles and seats 1-3 hold 13,
\* one more tile is the wildcard tile, the wall holds the population less
\* 54, and hands, wildcard tile and wall together are four copies of each
\* kind of the alphabet.
C14_DealPostcondition ==
    (q.op = "engine" /\ q.dealt /\ q.calls = 0)
        => /\ Len(q.hands[0]) = 14
           /\ \A i \in 1 .. 3 : Len(q.hands[i]) = 13
           /\ magic_card # NoCard
           /\ Len(wall) = Len(init_cards(include_honors)) - 54
           /\ \A k \in IndexRange :
                 DealtCopies(k) = (IF k < tile_kind_count(include_honors)
                                   THEN 4 ELSE 0)

\* a deal of the 136-tile population
C14_Witness ==
    /\ q.op = "engine" /\ q.dealt /\ q.calls = 0
    /\ include_honors
    /\ Len(wall) = 82
    /\ r_val.op = "shuffle_and_deal" /\ r_val.value = magic_card

\* C15: a draw on a non-empty wall returns the tile at the consuming end
\* and shortens the wall by that one tile; a draw on the empty wall returns
\* None and leaves the wall empty; after a deal exactly population - 54
\* draws return a tile.
C15_DrawAndExhaustion ==
    /\ [][CallDrawCard =>
            IF wall # <<>>
            THEN /\ r_val'.value = wall[Len(wall)]
                 /\ wall' = SubSeq(wall, 1, Len(wall) - 1)
            ELSE /\ r_val'.value = NoCard
                 /\ wall' = <<>>]_vars
    /\ [](q.op = "engine" /\ q.dealt
            => /\ q.tiles = (IF q.calls <= WallAfterDeal THEN q.calls
                             ELSE WallAfterDeal)
               /\ Len(wall) = WallAfterDeal - q.tiles)

\* the wall drawn empty and then drawn from again
C15_Witness ==
    /\ q.op = "engine" /\ q.dealt
    /\ q.calls = WallAfterDeal + ExtraDraws
    /\ q.tiles = WallAfterDeal
    /\ wall = <<>>
    /\ r_val.op = "draw_card" /\ r_val.value = NoCard

\* the ranks of a suit: 1..9 numeric, 1..4 winds, 1..3 dragons
RanksOf(card_type) ==
    IF card_type \in NumberTypes THEN 1 .. 9
    ELSE IF card_type = FENG THEN 1 .. 4 ELSE 1 .. 3

\* C16: Card.from_index fails with an error for every index outside the
\* alphabet (below 0, above 26 without honors, above 33 with honors) and
\* never returns a tile whose rank is outside its suit's range.
C16_IndexRangeValidated ==
    (q.op = "from_index" /\ q.returned)
        => /\ (q.index < 0 \/ q.index >= tile_kind_count(include_honors))
                => r_val.value.raised
           /\ ~r_val.value.raised
                => r_val.value.card.value \in RanksOf(r_val.value.card.type)

\* the hand of the seat that has just drawn is reported complete
DrawnHandComplete ==
    /\ pc = "check_zimo"
    /\ can_hu(Seat(current_player).hand, Seat(current_player).magic_count,
              include_honors).ok

\* C17: whenever the hand of the seat that has just drawn is reported
\* complete, the next step of the round ends it with that seat as winner
\* and win type self-draw; no tile is discarded and no hand is touched.
C17_SelfDrawWinTerminal ==
    [][DrawnHandComplete =>
            /\ pc' = "return"
            /\ winner' = current_player
            /\ win_type' = "zimo"
            /\ round_result'.result = "hu"
            /\ round_result'.winner = current_player
            /\ round_result'.win_type = "zimo"
            /\ round_result'.turns = turn
            /\ UNCHANGED <<players, discarded, discard, wall, current_player>>]_vars

\* a round ended by a self-draw after some discards were made
C17_Witness ==
    /\ pc = "return"
    /\ round_result.result = "hu" /\ round_result.win_type = "zimo"
    /\ round_result.winner = current_player
    /\ round_result.turns > 0

\* a round has just been won on a discard; the discarder is still the
\* current seat
WonOnDiscard ==
    /\ pc = "return"
    /\ round_result.result = "hu"
    /\ round_result.win_type = "dianpao"

\* the distance of seat i after the discarder in turn order
SeatsAfterDiscarder(i) == (i - current_player) % 4

\* C18: when several seats can complete their hand with the discarded
\* tile, the winner is the claimant nearest after the discarder in turn
\* order.
C18_NearestClaimantWins ==
    WonOnDiscard
        => \A d \in Claimants :
              SeatsAfterDiscarder(round_result.winner) <= SeatsAfterDiscarder(d)

\* the seats, other than the discarder, that can claim the discard as a
\* triplet and whose decide_peng takes it
PengTakers ==
    {i \in Others(current_player) :
        /\ can_peng(Seat(i).hand, discard)
        /\ ~decide_peng(Seat(i), discard, include_honors).raised
        /\ decide_peng(Seat(i), discard, include_honors).value}

\* C19: when no seat wins on the discard and a seat can claim it as a
\* triplet and takes the claim, that seat becomes the current seat and
\* discards next without drawing.
C19_TakenClaimBecomesCurrent ==
    [][(pc = "check_dianpao" /\ Claimants = {} /\ PengTakers # {})
          => /\ current_player' \in PengTakers
             /\ pc' = "discard"]_vars

\* the copies of a tile in the four players' own discard logs
LoggedCopies(card) ==
    CountIn(players[1].discarded, card) + CountIn(players[2].discarded, card)
    + CountIn(players[3].discarded, card) + CountIn(players[4].discarded, card)

\* C20: in every state of every round of simulate_games, game.discarded
\* holds exactly the tiles of the four players' own discard logs of the
\* current round; it is empty when a round starts and only grows by
\* appending the tile just discarded.
C20_DiscardPileOfThisRound ==
    /\ [](players # <<>>
            => /\ \A k \in IndexRange :
                     CountIn(discarded, from_index(k)) = LoggedCopies(from_index(k))
               /\ (pc = "draw" /\ turn = 0) => discarded = <<>>)
    /\ [][discarded' = discarded \/ discarded' = Append(discarded, discard')]_vars

\* the search has just descended into the child call of the given branch
Descended(branch) ==
    /\ q.op = "can_form_groups"
    /\ r_val.op = "descend"
    /\ r_val.branch = branch

\* the three kinds of the run taken at kind i
RunSlots == {r_val.kind, r_val.kind + 1, r_val.kind + 2}

\* C21: each time _can_form_groups takes the run branch at the lowest
\* outstanding kind i it accounts for exactly the three slots i, i+1, i+2:
\* one natural tile is removed from each slot that has one, exactly one
\* wildcard is charged for each slot that has none, and tiles removed plus
\* wildcards charged is 3.
C21_RunTakesThreeSlots ==
    Descended("run")
        => LET removed == SumValues(r_val.counts) - SumValues(q.card_counts)
               charged == r_val.magic_count - q.magic_count
           IN  /\ \A k \in RunSlots :
                     q.card_counts[k] =
                        r_val.counts[k] - (IF r_val.counts[k] > 0 THEN 1 ELSE 0)
               /\ charged = Cardinality({k \in RunSlots : r_val.counts[k] = 0})
               /\ removed + charged = 3

\* a call of _can_form_groups has returned
GroupsReturned ==
    /\ q.op = "can_form_groups"
    /\ q.returned
    /\ r_val.op = "return"

\* C22: when groups_needed is 0, _can_form_groups succeeds if and only if
\* every tile-kind counter is zero: unused wildcards may remain, but a
\* leftover natural tile makes the call fail even if wildcards remain.
C22_BaseCaseNoLeftover ==
    (GroupsReturned /\ q.groups_needed = 0)
        => (r_val.value.ok <=> SumValues(q.card_counts) = 0)

\* C23: with groups_needed > 0, _can_form_groups succeeds on the ground
\* "wildcard budget >= 3 * groups_needed" only when no tile kind has a
\* nonzero count; when some kind still has tiles and every triplet and run
\* branch from the lowest such kind failed, the call returns failure.
C23_WildcardsAloneOnlyWhenEmpty ==
    (GroupsReturned /\ q.groups_needed > 0)
        => LET tkc == tile_kind_count(include_honors)
               i == FirstKind(q.card_counts, tkc)
           IN  /\ r_val.value.how = "wildcards" => i = -1
               /\ (/\ i # -1
                   /\ ~triplet_branch(q.card_counts, q.magic_count,
                                      q.groups_needed, tkc, i).ok
                   /\ ~wild_triplet_branch(q.card_counts, q.magic_count,
                                           q.groups_needed, tkc, i).ok
                   /\ ~run_branch(q.card_counts, q.magic_count,
                                  q.groups_needed, tkc, i).ok)
                     => ~r_val.value.ok

\* C24: whenever a call of _can_form_groups returns failure the tile-kind
\* counters are what they were when the call was entered, and each branch
\* the call takes starts from the counters the call was entered with.
C24_FailureRestoresCounters ==
    /\ (GroupsReturned /\ ~r_val.value.ok)
          => r_val.value.counts = q.card_counts
    /\ (q.op = "can_form_groups" /\ r_val.op = "descend")
          => r_val.counts = r_val.entry

\* a call that took the run branch, got False back and then failed itself
C24_Witness ==
    /\ GroupsReturned
    /\ ~r_val.value.ok
    /\ q.groups_needed = MaxGroups
    /\ LET i == FirstKind(q.card_counts, tile_kind_count(include_honors))
       IN  /\ i # -1
           /\ run_entered(q.card_counts, q.magic_count, i)
           /\ q.card_counts[i + 1] > 0

\* C30: in every recursive call made by _can_form_groups the wildcard
\* budget passed down is between 0 and the caller's budget inclusive; no
\* branch passes down more wildcards than it received.
C30_BudgetOnlyShrinks ==
    (q.op = "can_form_groups" /\ r_val.op = "descend")
        => q.magic_count \in 0 .. r_val.magic_count

\* C25: the wildcard is never played: when the hand holds at least one
\* tile that is not the wildcard, the tile MahjongAssistant._recommend_discard
\* puts in "recommended" is not the wildcard tile.
C25_WildcardNeverRecommended ==
    (/\ q.op = "recommend_discard"
     /\ q.returned
     /\ \E n \in DOMAIN q.assistant.hand :
           q.assistant.hand[n] # q.assistant.magic_card)
        => r_val.value # q.assistant.magic_card

\* the tiles drawn from the wall since the deal of the current round
SuccessfulDraws == WallAfterDeal - Len(wall)

\* C26: every simulate_round run terminates in a terminal result (a win or
\* the wall exhausted) after at most 54 successful draws with the 108-tile
\* set; the wall-exhausted result is produced exactly when a draw finds the
\* wall empty, so the 100-turn cap is never what ends a round.
C26_RoundTerminates ==
    /\ (pc = "draw" /\ turn = 0)
          ~> (pc = "return" /\ round_result.result \in {"hu", "huang"})
    /\ [](players # <<>>
            => /\ SuccessfulDraws \in 0 .. 54
               /\ turn < MaxTurns)
    /\ [][DrawCard => (round_result'.result = "huang" /\ pc' = "return"
                          <=> wall = <<>>)]_vars
    /\ [][(pc # "return" /\ pc' = "return" /\ round_result'.result = "huang")
             => (pc = "draw" /\ wall = <<>>)]_vars

\* a round ended by the draw that found the wall empty, after 54 draws
C26_Witness ==
    /\ pc = "return"
    /\ round_result.result = "huang"
    /\ wall = <<>>
    /\ SuccessfulDraws = 54
    /\ round_result.turns = 54

\* a round of simulate_games is being played
RoundRunning ==
    /\ players # <<>>
    /\ pc \in {"draw", "check_zimo", "discard", "check_dianpao"}

\* C27: in every round started by simulate_games, the first and every
\* later one, the first seat to act is seat 0, the seat dealt 14 tiles,
\* and the seats then act in order +1 modulo 4; the seat to act and the
\* winner recorded by a previous round do not carry into the next round.
C27_DealerActsFirst ==
    RoundRunning
        => /\ current_player = turn % 4
           /\ winner = NoWinner
           /\ turn = 0 => Len(Seat(current_player).hand) >= HandSize

\* C28: at every point of a simulator round each player's magic_count
\* equals the number of tiles in that player's hand equal to the round's
\* wildcard tile, through the draws and the discards chosen by
\* decide_discard.
C28_MagicCountTracksHand ==
    players # <<>>
        => \A i \in 0 .. 3 :
              Seat(i).magic_count = CountIn(Seat(i).hand, magic_card)

\* a seat that drew a wildcard earlier has just discarded another tile
\* and still holds the wildcard
C28_Witness ==
    /\ pc = "check_dianpao"
    /\ turn >= 4
    /\ discard # magic_card
    /\ Seat(current_player).magic_count >= 1
    /\ CountIn(Seat(current_player).hand, magic_card) >= 1
    /\ Seat(current_player).hand[Len(Seat(current_player).hand)] = magic_card

\* C29: AIGameSimulator.init_game, run on the default 27-kind tile set it
\* constructs, completes without an error and leaves four initialised
\* players for every deal.
C29_StartUpCompletes ==
    (q.op = "ai_init_game" /\ q.returned)
        => /\ ~r_val.raised
           /\ Len(players) = 4

=============================================================================
